---- MODULE Spec2Model ----
(***************************************************************************)
(* Model of src/context.cpp: the per-symbol cache ("cookie") life cycle of *)
(* the Context Objects, the inherited-member aggregator, the class         *)
(* hierarchy and containment tree builders, the property table and its     *)
(* delegates, the generic list with its cursors, and the documentation,    *)
(* code and diagram accessors under any output format.                     *)
(***************************************************************************)
EXTENDS FiniteSets, Integers, Sequences, TLC

VARIABLES
  outputFormat,   \* g_globals.outputFormat
  cookie,         \* Definition::cookie() of every symbol: Null or a Cachable
  symbolMap,      \* Doxygen::symbolMap: the symbols the teardown iterates
  mainPage,       \* Doxygen::mainPage: Null or a page symbol
  ctxs,           \* the live Context Objects, each wrapping one symbol
  pc,             \* position inside generateOutputViaTemplate
  runs,           \* number of generateOutputViaTemplate calls started
  plain,          \* symbols without optional content (brief, source, ...)
  config,         \* Config_getBool(HAVE_DOT) and whether CLASS_GRAPH is YES or GRAPH
  parseCalls,     \* parser invocations of this run, per <<symbol, property>>
  attached,       \* symbols that got a Cachable attached in this run
  reqLog,         \* the accessor calls of this run, oldest first
  baseClasses,    \* ClassDef::baseClasses() of every class, in declaration order
  linkable,       \* the classes with isLinkable()
  membersOf,      \* per class the member-list types that hold a member
  imList,         \* entries of one InheritedMemberInfoListContext
  imCalls,        \* the addMemberList calls made on that list
  imVisited,      \* the ClassDefSet of the latest addMemberList call
  visibleClasses, \* the classes with isVisibleInHierarchy()
  language,       \* getLanguage() of every class
  vhdlEntities,   \* the classes whose protection() is VhdlDocGen::ENTITYCLASS
  hiddenMap,      \* the classes kept in Doxygen::hiddenClassLinkedMap
  classTree,      \* nodes of ClassHierarchyContext's m_classTree, in creation order
  hierBuilt,      \* whether ClassHierarchyContext::Private::Private has run
  ntWorld,        \* the symbols of the containment trees: outer scopes, groups, filters
  ntEntries,      \* Config_getInt(HTML_INDEX_NUM_ENTRIES)
  ntType,         \* the ContextTreeType of the tree context that was constructed
  ntTree,         \* the nodes of that tree, in creation order
  ntCache,        \* the tree context's m_cache: maxDepth and preferredDepth
  pmMap,          \* PropertyMapper::m_map: the (name, handler) pairs
  pmLog,          \* the calls made on the table or on a delegate, with their results
  pmErrors,       \* the number of err() reports
  glList,         \* GenericNodeListContext::m_children
  glCursors,      \* m_index of every GenericConstIterator created over the list
  glLast          \* the latest call on the list or on a cursor, with its outcome

cacheVars == <<outputFormat, cookie, symbolMap, mainPage, ctxs, pc, runs, plain, config,
               parseCalls, attached, reqLog>>
graphVars == <<baseClasses, linkable, membersOf>>
imVars == <<imList, imCalls, imVisited>>
hierVars == <<visibleClasses, language, vhdlEntities, hiddenMap, classTree, hierBuilt>>
ntVars == <<ntWorld, ntEntries, ntType, ntTree, ntCache>>
pmVars == <<pmMap, pmLog, pmErrors>>
glVars == <<glList, glCursors, glLast>>
nonCacheVars == <<graphVars, imVars, hierVars, ntVars, pmVars, glVars>>
vars == <<cacheVars, nonCacheVars>>

\* A null pointer to a TemplateVariant; a symbol without a cookie.
Null == <<"null">>
NoCookie == <<>>
NoPage == "none"

\* ------------------------------------------------------------------------
\* Bounds of the model
\* ------------------------------------------------------------------------
MaxRuns == 2
MaxRequests == 3
MaxBases == 2
MaxCalls == 2
MaxDepth == 6
MaxEntries == 3
MaxOps == 4
MaxDelegateCalls == 2
MaxArgs == 3
MaxListLen == 3
MaxCursors == 2
MaxAccesses == 2

\* ------------------------------------------------------------------------
\* Symbols and output formats
\* ------------------------------------------------------------------------
\* enum ContextOutputFormat (the formats a render pass can select and one
\* format no generator supports)
Formats == {"Unspecified", "Html", "Latex", "Rtf"}

\* The symbol graph: a class, a member, a file, an example page and the
\* main page that generateOutputViaTemplate creates when there is none.
Defs == {"cd", "md", "fd", "pd", "index"}

\* Identities of the Context Objects of one run: the PageContext of the
\* main page made during setup and one made by a template.
ContextIds == {1, 2}

\* The symbols that may lack the optional content the accessors test for.
MaybePlain == {"md", "fd"}

DefType(d) ==
  CASE d = "cd" -> "TypeClass"
    [] d = "md" -> "TypeMember"
    [] d = "fd" -> "TypeFile"
    [] OTHER    -> "TypePage"

BaseProps == {"details", "brief", "inbodyDocs"}

PropsOf(d) ==
  CASE DefType(d) = "TypeMember" -> BaseProps \cup {"paramDocs", "sourceCode", "initializerAsCode"}
    [] DefType(d) = "TypeFile"   -> BaseProps \cup {"sources"}
    [] DefType(d) = "TypePage"   -> BaseProps \cup {"example"}
    [] OTHER                     -> BaseProps

AllProps == BaseProps \cup {"paramDocs", "sourceCode", "initializerAsCode", "sources", "example"}

\* The classes of the inheritance graph, in declaration order.
Classes == {"A", "B", "C", "D"}
ClassOrder == <<"A", "B", "C", "D">>

\* Doxygen run with dot and with class graphs enabled.
DefaultConfig == [haveDot |-> TRUE, classGraph |-> TRUE]

\* Symbol data read by the accessors.
hasBriefDescription(d)  == d \notin plain
hasInbodyDocs(d)        == d \notin plain
argsHaveDocumentation(d) == d \notin plain
readCodeFragment(d)     == d \notin plain
generateSourceFile(d)   == d \notin plain
hasCallGraph(d)         == d \notin plain
hasCallerGraph(d)       == d \notin plain
isExample(d)            == d = "pd"

\* ------------------------------------------------------------------------
\* External collaborators as the accessors see them
\* ------------------------------------------------------------------------
\* The text a generator writes for the documentation or code of symbol d
\* shown as property p: it differs per symbol, property and format.
Rendered(d, p, fmt) == <<d, p, fmt>>

EmptyText == <<>>
NoneVariant == <<"none">>

\* parseDoc: HTML and LaTeX visitors write the text, any other format
\* reports an error and leaves the stream empty.
parseDoc(d, p, fmt) ==
  CASE fmt = "Html"  -> Rendered(d, p, "Html")
    [] fmt = "Latex" -> Rendered(d, p, "Latex")
    [] OTHER         -> EmptyText

\* parseCode: same switch over the output format.
parseCode(d, p, fmt) ==
  CASE fmt = "Html"  -> Rendered(d, p, "Html")
    [] fmt = "Latex" -> Rendered(d, p, "Latex")
    [] OTHER         -> EmptyText

\* ------------------------------------------------------------------------
\* The Cachable record and the accessors
\* ------------------------------------------------------------------------
\* DefinitionContext::Cachable::Cachable and the derived constructors:
\* every pointer empty, every recorded format Unspecified, flags FALSE.
NewCachable ==
  [ details |-> Null,      detailsOutputFormat |-> "Unspecified",
    brief |-> Null,        briefOutputFormat |-> "Unspecified",
    inbodyDocs |-> Null,   inbodyDocsOutputFormat |-> "Unspecified",
    example |-> Null,      exampleOutputFormat |-> "Unspecified",
    paramDocs |-> Null,
    sourceCode |-> NoneVariant,   sourceCodeParsed |-> FALSE,
    initializer |-> NoneVariant,  initializerParsed |-> FALSE,
    sources |-> Null,
    classGraph |-> Null,  collaborationGraph |-> Null,
    callGraph |-> Null,   callerGraph |-> Null ]

\* Result of an accessor: the cache afterwards, the value returned and the
\* number of parser invocations it made.
Ret(c, v, n) == [cache |-> c, result |-> v, parsed |-> n]

detailsNoFormatCheck(cache, d, fmt) ==
  IF cache.details = Null
    THEN LET v == parseDoc(d, "details", fmt)
         IN Ret([cache EXCEPT !.details = v, !.detailsOutputFormat = fmt], v, 1)
    ELSE Ret(cache, cache.details, 0)

detailsNoCache(cache, d, fmt) ==
  LET v == parseDoc(d, "details", fmt)
  IN Ret([cache EXCEPT !.details = v, !.detailsOutputFormat = fmt], v, 1)

\* DefinitionContext::details
details(cache, d, fmt) ==
  IF cache.details = Null \/ fmt # cache.detailsOutputFormat
    THEN LET v == parseDoc(d, "details", fmt)
         IN Ret([cache EXCEPT !.details = v, !.detailsOutputFormat = fmt], v, 1)
    ELSE Ret(cache, cache.details, 0)

\* DefinitionContext::brief
brief(cache, d, fmt) ==
  IF cache.brief = Null \/ fmt # cache.briefOutputFormat
    THEN IF hasBriefDescription(d)
           THEN LET v == parseDoc(d, "brief", fmt)
                IN Ret([cache EXCEPT !.brief = v, !.briefOutputFormat = fmt], v, 1)
           ELSE Ret([cache EXCEPT !.brief = EmptyText], EmptyText, 0)
    ELSE Ret(cache, cache.brief, 0)

\* DefinitionContext::inbodyDocs
inbodyDocs(cache, d, fmt) ==
  IF cache.inbodyDocs = Null \/ fmt # cache.inbodyDocsOutputFormat
    THEN IF hasInbodyDocs(d)
           THEN LET v == parseDoc(d, "inbodyDocs", fmt)
                IN Ret([cache EXCEPT !.inbodyDocs = v, !.inbodyDocsOutputFormat = fmt], v, 1)
           ELSE Ret([cache EXCEPT !.inbodyDocs = EmptyText], EmptyText, 0)
    ELSE Ret(cache, cache.inbodyDocs, 0)

\* PageContext::Private::example
example(cache, d, fmt) ==
  IF isExample(d)
    THEN IF cache.example = Null \/ fmt # cache.exampleOutputFormat
           THEN LET v == parseDoc(d, "example", fmt)
                IN Ret([cache EXCEPT !.example = v, !.exampleOutputFormat = fmt], v, 1)
           ELSE Ret(cache, cache.example, 0)
    ELSE Ret(cache, EmptyText, 0)

\* MemberContext::Private::paramDocs
paramDocs(cache, d, fmt) ==
  IF cache.paramDocs = Null
    THEN IF argsHaveDocumentation(d)
           THEN LET v == parseDoc(d, "paramDocs", fmt)
                IN Ret([cache EXCEPT !.paramDocs = v], v, 1)
           ELSE Ret([cache EXCEPT !.paramDocs = EmptyText], EmptyText, 0)
    ELSE Ret(cache, cache.paramDocs, 0)

\* MemberContext::Private::sourceCode
sourceCode(cache, d, fmt) ==
  IF ~cache.sourceCodeParsed
    THEN IF readCodeFragment(d)
           THEN LET v == parseCode(d, "sourceCode", fmt)
                IN Ret([cache EXCEPT !.sourceCode = v, !.sourceCodeParsed = TRUE], v, 1)
           ELSE Ret(cache, cache.sourceCode, 0)
    ELSE Ret(cache, cache.sourceCode, 0)

\* MemberContext::Private::initializerAsCode
initializerAsCode(cache, d, fmt) ==
  IF ~cache.initializerParsed
    THEN LET v == parseCode(d, "initializerAsCode", fmt)
         IN Ret([cache EXCEPT !.initializer = v, !.initializerParsed = TRUE], v, 1)
    ELSE Ret(cache, cache.initializer, 0)

\* FileContext::Private::sources
sources(cache, d, fmt) ==
  IF cache.sources = Null
    THEN IF generateSourceFile(d)
           THEN LET v == parseCode(d, "sources", fmt)
                IN Ret([cache EXCEPT !.sources = v], v, 1)
           ELSE Ret([cache EXCEPT !.sources = EmptyText], EmptyText, 0)
    ELSE Ret(cache, cache.sources, 0)

\* PropertyMapper dispatch of a property name to its accessor.
Accessor(cache, d, p, fmt) ==
  CASE p = "details"           -> details(cache, d, fmt)
    [] p = "brief"             -> brief(cache, d, fmt)
    [] p = "inbodyDocs"        -> inbodyDocs(cache, d, fmt)
    [] p = "example"           -> example(cache, d, fmt)
    [] p = "paramDocs"         -> paramDocs(cache, d, fmt)
    [] p = "sourceCode"        -> sourceCode(cache, d, fmt)
    [] p = "initializerAsCode" -> initializerAsCode(cache, d, fmt)
    [] p = "sources"           -> sources(cache, d, fmt)

\* ------------------------------------------------------------------------
\* Diagram accessors
\* ------------------------------------------------------------------------
\* The diagram properties of a class and of a member.
GraphProps == {"inheritanceDiagram", "collaborationDiagram", "callGraph", "callerGraph"}

GraphPropsOf(d) ==
  CASE DefType(d) = "TypeClass"  -> {"inheritanceDiagram", "collaborationDiagram"}
    [] DefType(d) = "TypeMember" -> {"callGraph", "callerGraph"}
    [] OTHER                     -> {}

formatErrorNever(fmt) == 0

\* switch (g_globals.outputFormat) ... default: err("context.cpp: output
\* format not yet supported\n"): the number of errors the switch reports
formatError(fmt) == IF fmt \in {"Html", "Latex"} THEN 0 ELSE 1

\* What writeGraph, writeImage or writeFigure leave in the text stream for
\* the graph behind handle.
writeGraph(d, p, fmt) ==
  CASE fmt = "Html"  -> Rendered(d, p, "Html")
    [] fmt = "Latex" -> Rendered(d, p, "Latex")
    [] OTHER         -> EmptyText

\* Result of a diagram accessor: the cache afterwards, the text returned,
\* the graph handle used (Null if none), whether it was built by this call,
\* whether the output switch was reached and the errors reported.
GraphRet(c, v, handle, built, drew, errors) ==
  [cache |-> c, result |-> v, handle |-> handle, built |-> built, drew |-> drew,
   errors |-> errors, parsed |-> 0]

buildAlways(slot) == TRUE

\* getClassGraph, getCollaborationGraph, getCallGraph, getCallerGraph:
\*   if (!cache.classGraph)
mustBuild(slot) == slot = Null

\* getClassGraph and the like: the handle used, which is new DotClassGraph
\* (identified by fresh) when the slot is empty
getGraph(slot, fresh) == IF mustBuild(slot) THEN <<"graph", fresh>> ELSE slot

\* The accessor body after the graph was obtained: the switch over the
\* output format and the text returned.
drawGraph(cache, d, p, fmt, slot, fresh) ==
  GraphRet(cache, writeGraph(d, p, fmt), getGraph(slot, fresh), mustBuild(slot), 1,
           formatError(fmt))

\* ClassContext::Private::inheritanceDiagram
inheritanceDiagram(cache, d, fmt, fresh) ==
  IF config.haveDot /\ config.classGraph
    THEN drawGraph([cache EXCEPT !.classGraph = getGraph(cache.classGraph, fresh)],
                   d, "inheritanceDiagram", fmt, cache.classGraph, fresh)
    ELSE IF config.classGraph
           THEN GraphRet(cache, writeGraph(d, "inheritanceDiagram", fmt), Null, FALSE, 1,
                         formatError(fmt))
           ELSE GraphRet(cache, EmptyText, Null, FALSE, 0, 0)

\* ClassContext::Private::collaborationDiagram
collaborationDiagram(cache, d, fmt, fresh) ==
  IF config.haveDot
    THEN drawGraph([cache EXCEPT !.collaborationGraph = getGraph(cache.collaborationGraph, fresh)],
                   d, "collaborationDiagram", fmt, cache.collaborationGraph, fresh)
    ELSE GraphRet(cache, EmptyText, Null, FALSE, 0, 0)

\* MemberContext::Private::callGraph (hasCallGraph builds the graph too)
callGraph(cache, d, fmt, fresh) ==
  IF hasCallGraph(d) /\ config.haveDot
    THEN drawGraph([cache EXCEPT !.callGraph = getGraph(cache.callGraph, fresh)],
                   d, "callGraph", fmt, cache.callGraph, fresh)
    ELSE GraphRet(cache, EmptyText, Null, FALSE, 0, 0)

\* MemberContext::Private::callerGraph
callerGraph(cache, d, fmt, fresh) ==
  IF hasCallerGraph(d) /\ config.haveDot
    THEN drawGraph([cache EXCEPT !.callerGraph = getGraph(cache.callerGraph, fresh)],
                   d, "callerGraph", fmt, cache.callerGraph, fresh)
    ELSE GraphRet(cache, EmptyText, Null, FALSE, 0, 0)

\* PropertyMapper dispatch of a diagram property to its accessor.
GraphAccessor(cache, d, p, fmt, fresh) ==
  CASE p = "inheritanceDiagram"   -> inheritanceDiagram(cache, d, fmt, fresh)
    [] p = "collaborationDiagram" -> collaborationDiagram(cache, d, fmt, fresh)
    [] p = "callGraph"            -> callGraph(cache, d, fmt, fresh)
    [] p = "callerGraph"          -> callerGraph(cache, d, fmt, fresh)

\* ------------------------------------------------------------------------
\* Context Object construction and teardown
\* ------------------------------------------------------------------------
\* getCache: assert(c!=0) on the symbol's cookie
hasCache(ck, d) == ck[d] # NoCookie

attachNothing(ck, d) == ck

setCookieAlways(ck, d) ==
  [ck EXCEPT ![d] = <<NewCachable>>]

\* The last statement of every Context Object constructor:
\*   if (!d->cookie()) { d->setCookie(new Cachable(d)); }
attachCookie(ck, d) ==
  IF ck[d] = NoCookie THEN [ck EXCEPT ![d] = <<NewCachable>>] ELSE ck

clearCookiesButMainPage(ck, map) ==
  [d \in Defs |-> IF d \in map /\ d # "index" THEN NoCookie ELSE ck[d]]

\* for (const auto &kv : *Doxygen::symbolMap) kv.second->setCookie(0);
clearCookies(ck, map) ==
  [d \in Defs |-> IF d \in map THEN NoCookie ELSE ck[d]]

\* createPageDef registers the new page in the symbol map (definition.cpp,
\* not part of context.cpp).
createPageDef(map, d) == map \cup {d}

NoCalls == <<>>

\* Parser invocations made so far in this run for property p of symbol d.
Calls(d, p) == IF <<d, p>> \in DOMAIN parseCalls THEN parseCalls[<<d, p>>] ELSE 0

\* ------------------------------------------------------------------------
\* Symbols of the containment trees
\* ------------------------------------------------------------------------
\* The namespaces, classes, concepts, directories, files, pages, groups
\* and members of the project, in the order of the global maps.
SymOrder == <<"N1", "N2", "K1", "K2", "Q1", "D1", "D2", "F1", "F2",
              "P1", "P2", "G1", "G2", "m1", "m2">>
NtSymbols == {SymOrder[i] : i \in DOMAIN SymOrder}

\* Definition::definitionType()
KindOf(s) ==
  CASE s \in {"N1", "N2"} -> "namespace"
    [] s \in {"K1", "K2"} -> "class"
    [] s \in {"Q1"}       -> "concept"
    [] s \in {"D1", "D2"} -> "dir"
    [] s \in {"F1", "F2"} -> "file"
    [] s \in {"P1", "P2"} -> "page"
    [] s \in {"G1", "G2"} -> "group"
    [] OTHER              -> "member"

\* getOuterScope()==0 (for a file: getDirDef()==0), Doxygen::globalScope,
\* partOfGroups().empty()
NoScope == "null"
GlobalScope == "global"
NoGroup == "nogroup"

\* ContextTreeType
TreeTypes == {"ClassNesting", "Namespace", "File", "Page", "Concept", "Module"}
NoTree == "none"

\* A project in which every symbol is at the top level, in no group and
\* passes every filter; the members belong to class K1 and namespace N1.
DefaultWorld ==
  [outer  |-> [s \in NtSymbols |->
                 CASE s = "m1" -> "K1"
                   [] s = "m2" -> "N1"
                   [] KindOf(s) = "file" -> NoScope
                   [] OTHER -> GlobalScope],
   group  |-> [s \in NtSymbols |-> NoGroup],
   hidden |-> {}]

\* The tree context's Cachable: nothing computed.
NewTreeCache ==
  [maxDepthComputed |-> FALSE, maxDepth |-> 0,
   preferredDepthComputed |-> FALSE, preferredDepth |-> 0]

\* No tree context was constructed.
NtIdle ==
  /\ ntWorld = DefaultWorld
  /\ ntEntries = 0
  /\ ntType = NoTree
  /\ ntTree = <<>>
  /\ ntCache = NewTreeCache

\* A PropertyMapper after construction: nothing registered.
PmIdle ==
  /\ pmMap = {}
  /\ pmLog = <<>>
  /\ pmErrors = 0

\* The record of a call on the list or on a cursor: its arguments, its
\* results and the list and cursors it found.
Call(op, cursor, arg, result, ok, listBefore, cursorsBefore) ==
  [op |-> op, cursor |-> cursor, arg |-> arg, result |-> result, ok |-> ok,
   listBefore |-> listBefore, cursorsBefore |-> cursorsBefore]

\* No call made yet.
NoCall == Call("none", 0, 0, NoneVariant, FALSE, <<>>, <<>>)

\* A GenericNodeListContext after construction: empty, no cursor created.
GlIdle ==
  /\ glList = <<>>
  /\ glCursors = <<>>
  /\ glLast = NoCall

\* ------------------------------------------------------------------------
\* Specification of the cache life cycle
\* ------------------------------------------------------------------------
Init ==
  /\ outputFormat = "Unspecified"
  /\ cookie = [d \in Defs |-> NoCookie]
  /\ mainPage \in {NoPage, "index"}
  /\ symbolMap = IF mainPage = NoPage THEN Defs \ {"index"} ELSE Defs
  /\ ctxs = <<>>
  /\ pc = "idle"
  /\ runs = 0
  /\ plain \in SUBSET MaybePlain
  /\ config = DefaultConfig
  /\ parseCalls = NoCalls
  /\ attached = {}
  /\ reqLog = <<>>
  /\ baseClasses = [c \in Classes |-> <<>>]
  /\ linkable = Classes
  /\ membersOf = [c \in Classes |-> {}]
  /\ imList = <<>>
  /\ imCalls = <<>>
  /\ imVisited = {}
  /\ visibleClasses = Classes
  /\ language = [c \in Classes |-> "Cpp"]
  /\ vhdlEntities = {}
  /\ hiddenMap = {}
  /\ classTree = <<>>
  /\ hierBuilt = FALSE
  /\ NtIdle
  /\ PmIdle
  /\ GlIdle

\* generateOutputViaTemplate up to the first render pass: the Context
\* Objects of the global handles are created, among them the PageContext
\* of the main page, which is generated when the project has none.
BeginRun ==
  /\ pc = "idle"
  /\ runs < MaxRuns
  /\ LET mp  == IF mainPage = NoPage THEN "index" ELSE mainPage
         map == IF mainPage = NoPage THEN createPageDef(symbolMap, "index") ELSE symbolMap
     IN /\ mainPage' = mp
        /\ symbolMap' = map
        /\ attached' = IF cookie[mp] = NoCookie THEN {mp} ELSE {}
        /\ cookie' = attachCookie(cookie, mp)
        /\ ctxs' = <<mp>>
  /\ pc' = "setup"
  /\ runs' = runs + 1
  /\ parseCalls' = NoCalls
  /\ reqLog' = <<>>
  /\ UNCHANGED <<outputFormat, plain, config, nonCacheVars>>

\* The HTML render pass starts: g_globals.outputFormat = Html.
HtmlPass ==
  /\ pc = "setup"
  /\ pc' = "html"
  /\ outputFormat' = "Html"
  /\ UNCHANGED <<cookie, symbolMap, mainPage, ctxs, runs, plain, config, parseCalls, attached, reqLog,
               nonCacheVars>>

\* The LaTeX render pass starts: g_globals.outputFormat = Latex. The source
\* guards this pass with the literal condition 0 (generateOutputViaTemplate,
\* "TODO: clean index before each run"); it is modelled as the optional
\* second pass the block implements, since the output format changes
\* nowhere else.
LatexPass ==
  /\ pc \in {"setup", "html"}
  /\ pc' = "latex"
  /\ outputFormat' = "Latex"
  /\ UNCHANGED <<cookie, symbolMap, mainPage, ctxs, runs, plain, config, parseCalls, attached, reqLog,
               nonCacheVars>>

\* During a render pass a template reaches a symbol and a Context Object
\* is constructed for it (ClassContext::alloc, MemberContext::alloc, ...).
NewContext(d) ==
  /\ pc \in {"html", "latex"}
  /\ Len(ctxs) + 1 \in ContextIds
  /\ d \in symbolMap
  /\ ctxs' = Append(ctxs, d)
  /\ attached' = IF cookie[d] = NoCookie THEN attached \cup {d} ELSE attached
  /\ cookie' = attachCookie(cookie, d)
  /\ UNCHANGED <<outputFormat, symbolMap, mainPage, pc, runs, plain, config, parseCalls, reqLog,
               nonCacheVars>>

\* During a render pass a template reads property p of Context Object i.
\* Every accessor starts with getCache(), whose assert(c!=0) aborts the
\* program when the symbol has no cookie.
Request(i, p) ==
  /\ pc \in {"html", "latex"}
  /\ Len(reqLog) < MaxRequests
  /\ i \in DOMAIN ctxs
  /\ LET d == ctxs[i]
     IN /\ p \in PropsOf(d)
        /\ IF hasCache(cookie, d)
             THEN LET r == Accessor(cookie[d][1], d, p, outputFormat)
                  IN /\ cookie' = [cookie EXCEPT ![d] = <<r.cache>>]
                     /\ parseCalls' = [k \in DOMAIN parseCalls \cup {<<d, p>>} |->
                                          IF k = <<d, p>> THEN Calls(d, p) + r.parsed
                                                          ELSE parseCalls[k]]
                     /\ reqLog' = Append(reqLog, [ctx |-> i, def |-> d, prop |-> p,
                                                  fmt |-> outputFormat, val |-> r.result,
                                                  parsed |-> r.parsed])
                     /\ pc' = pc
             ELSE /\ pc' = "aborted"
                  /\ UNCHANGED <<cookie, parseCalls, reqLog>>
  /\ UNCHANGED <<outputFormat, symbolMap, mainPage, ctxs, runs, plain, config, attached,
               nonCacheVars>>

\* End of generateOutputViaTemplate: the cookies of all symbols of the
\* symbol map are reset and the Context Objects go out of scope.
Teardown ==
  /\ pc \in {"setup", "html", "latex"}
  /\ cookie' = clearCookies(cookie, symbolMap)
  /\ ctxs' = <<>>
  /\ pc' = "idle"
  /\ UNCHANGED <<outputFormat, symbolMap, mainPage, runs, plain, config, parseCalls, attached, reqLog,
               nonCacheVars>>

Next ==
  \/ BeginRun
  \/ HtmlPass
  \/ LatexPass
  \/ \E d \in Defs : NewContext(d)
  \/ \E i \in ContextIds, p \in AllProps : Request(i, p)
  \/ Teardown

Spec == Init /\ [][Next]_vars

\* ------------------------------------------------------------------------
\* Properties of the cache life cycle
\* ------------------------------------------------------------------------
\* Requests i and j read the same property of the same symbol.
SameSlot(i, j) ==
  /\ reqLog[i].def = reqLog[j].def
  /\ reqLog[i].prop = reqLog[j].prop

\* Request i is the first of this run for its symbol and property.
FirstFor(i) == \A k \in 1..(i-1) : ~SameSlot(k, i)

\* Request j is the next request after i for the same symbol and property.
NextFor(i, j) ==
  /\ i < j
  /\ SameSlot(i, j)
  /\ \A k \in (i+1)..(j-1) : ~SameSlot(k, i)

\* details always runs the parser on a miss, brief only when the symbol
\* has a brief description.
ParsesDoc(d, p) ==
  \/ p = "details"
  \/ p = "brief" /\ hasBriefDescription(d)

\* C1: details (or brief of a symbol with a brief description) requested
\* twice in a row in one format invokes the parser once and returns the
\* same value twice; requested in F1 and then in a different F2 it invokes
\* the parser exactly twice.
C1_CacheRoundTrip ==
  \A i, j \in DOMAIN reqLog :
    (NextFor(i, j) /\ ParsesDoc(reqLog[i].def, reqLog[i].prop)) =>
      /\ FirstFor(i) => reqLog[i].parsed = 1
      /\ IF reqLog[i].fmt = reqLog[j].fmt
           THEN reqLog[j].parsed = 0 /\ reqLog[j].val = reqLog[i].val
           ELSE reqLog[j].parsed = 1 /\ reqLog[j].val # reqLog[i].val

\* A run in which details or brief was requested twice in Html and then
\* once in Latex.
C1_Witness ==
  /\ Len(reqLog) = 3
  /\ NextFor(1, 2) /\ NextFor(2, 3)
  /\ ParsesDoc(reqLog[1].def, reqLog[1].prop)
  /\ reqLog[1].fmt = reqLog[2].fmt
  /\ reqLog[2].fmt # reqLog[3].fmt
  /\ Calls(reqLog[1].def, reqLog[1].prop) = 2

\* The properties whose value is a parsed text kept in the Cachable.
TextProps == AllProps

\* C2: every text-valued cache entry records the format it was computed
\* for, so a request made after the output format changed never returns
\* the text computed for the previous format.
C2_TextFollowsFormat ==
  \A j \in DOMAIN reqLog :
    reqLog[j].prop \in TextProps =>
      \/ reqLog[j].val \in {EmptyText, NoneVariant}
      \/ reqLog[j].val = Rendered(reqLog[j].def, reqLog[j].prop, reqLog[j].fmt)

\* The properties whose slot carries a recorded output format.
Tagged(d, p) ==
  \/ p = "details"
  \/ p = "brief" /\ hasBriefDescription(d)
  \/ p = "inbodyDocs" /\ hasInbodyDocs(d)
  \/ p = "example" /\ isExample(d)

\* C3 as claimed: the slots are partitioned per format, i.e. a format in
\* which a tagged text property was computed during this run is served
\* from the cache when it is requested again.
C3_PartitionedPerFormat ==
  \A i \in DOMAIN reqLog :
    (Tagged(reqLog[i].def, reqLog[i].prop) /\ cookie[reqLog[i].def] # NoCookie) =>
      Accessor(cookie[reqLog[i].def][1], reqLog[i].def, reqLog[i].prop, reqLog[i].fmt).parsed = 0

\* C3 amended: a tagged slot holds one value, that of the format of the
\* latest request; after F1 then F2 a further request in F1 runs the parser
\* again (F1, F2, F1 are three computations) and one in F2 does not.
C3_SingleSlotPerProperty ==
  \A i, j \in DOMAIN reqLog :
    ( /\ NextFor(i, j)
      /\ \A k \in (j+1)..Len(reqLog) : ~SameSlot(k, j)
      /\ Tagged(reqLog[i].def, reqLog[i].prop)
      /\ reqLog[i].fmt # reqLog[j].fmt
      /\ cookie[reqLog[i].def] # NoCookie ) =>
      LET d == reqLog[i].def
          p == reqLog[i].prop
      IN /\ Accessor(cookie[d][1], d, p, reqLog[i].fmt).parsed = 1
         /\ Accessor(cookie[d][1], d, p, reqLog[j].fmt).parsed = 0
         /\ FirstFor(i) =>
              Calls(d, p) + Accessor(cookie[d][1], d, p, reqLog[i].fmt).parsed = 3

\* details was computed for Html and then for Latex.
C3_Witness ==
  \E i, j \in DOMAIN reqLog :
    /\ NextFor(i, j)
    /\ reqLog[i].prop = "details"
    /\ reqLog[i].fmt = "Html" /\ reqLog[j].fmt = "Latex"
    /\ reqLog[i].parsed = 1 /\ reqLog[j].parsed = 1
    /\ cookie[reqLog[i].def] # NoCookie
    /\ cookie[reqLog[i].def][1].detailsOutputFormat = "Latex"

\* C4: a constructor attaches a Cachable only to a symbol that has none
\* and never replaces one, so a value memoized through one Context Object
\* is returned through another Context Object of the same symbol without
\* running the parser again.
C4_SharedCache ==
  /\ \A d \in Defs : (\E i \in DOMAIN ctxs : ctxs[i] = d) => cookie[d] # NoCookie
  /\ \A i, j \in DOMAIN reqLog :
       ( /\ NextFor(i, j)
         /\ reqLog[i].ctx # reqLog[j].ctx
         /\ reqLog[i].fmt = reqLog[j].fmt
         /\ ParsesDoc(reqLog[i].def, reqLog[i].prop) ) =>
         /\ reqLog[j].parsed = 0
         /\ reqLog[j].val = reqLog[i].val

\* Two Context Objects of one symbol: the first computed a text, the second
\* returned it.
C4_Witness ==
  \E i, j \in DOMAIN reqLog :
    /\ NextFor(i, j)
    /\ reqLog[i].ctx # reqLog[j].ctx
    /\ ctxs[reqLog[i].ctx] = ctxs[reqLog[j].ctx]
    /\ reqLog[i].fmt = reqLog[j].fmt
    /\ reqLog[i].parsed = 1 /\ reqLog[j].parsed = 0
    /\ reqLog[j].val = reqLog[i].val

\* Whether the first request of a run for property p of d runs a parser.
FreshParses(d, p) ==
  CASE p = "details"           -> 1
    [] p = "brief"             -> IF hasBriefDescription(d) THEN 1 ELSE 0
    [] p = "inbodyDocs"        -> IF hasInbodyDocs(d) THEN 1 ELSE 0
    [] p = "example"           -> IF isExample(d) THEN 1 ELSE 0
    [] p = "paramDocs"         -> IF argsHaveDocumentation(d) THEN 1 ELSE 0
    [] p = "sourceCode"        -> IF readCodeFragment(d) THEN 1 ELSE 0
    [] p = "initializerAsCode" -> 1
    [] p = "sources"           -> IF generateSourceFile(d) THEN 1 ELSE 0

\* C5: when generateOutputViaTemplate has finished no symbol carries a
\* Cachable any more, and in every run the first request of a property
\* computes it anew: nothing computed in an earlier run is returned.
C5_TeardownDetaches ==
  /\ pc = "idle" => \A d \in Defs : cookie[d] = NoCookie
  /\ \A j \in DOMAIN reqLog :
       FirstFor(j) => reqLog[j].parsed = FreshParses(reqLog[j].def, reqLog[j].prop)

\* The second run has finished; in it Cachables were attached to the main
\* page and to another symbol and a text was computed.
C5_Witness ==
  /\ pc = "idle"
  /\ runs = 2
  /\ Cardinality(attached) >= 2
  /\ mainPage \in attached
  /\ \E j \in DOMAIN reqLog : reqLog[j].parsed = 1

\* ------------------------------------------------------------------------
\* The inherited-member aggregator (InheritedMemberInfoListContext)
\* ------------------------------------------------------------------------
\* Member list categories (MemberListType) and inheritance protections.
ListTypes == {"pubMethods", "proMethods", "priMethods"}
NoList == "-1"
Protections == {"Public", "Protected", "Private"}

\* convertProtectionLevel(lt, prot, &lt1, &lt2) with EXTRACT_PRIVATE set:
\* the fixed table from a category and the protection of an inheritance
\* edge to the one or two categories the base class exposes (util.cpp).
convertProtectionLevel(lt, prot) ==
  CASE prot = "Public" ->
         IF lt = "priMethods" THEN <<NoList, NoList>> ELSE <<lt, NoList>>
    [] prot = "Protected" ->
         IF lt = "proMethods" THEN <<"proMethods", "pubMethods">> ELSE <<NoList, NoList>>
    [] prot = "Private" ->
         IF lt = "priMethods" THEN <<"pubMethods", "proMethods">> ELSE <<NoList, NoList>>

\* ClassDef::countMembersIncludingGrouped(lt, inheritedFrom, additional):
\* the number of members of cd in category lt (classdef.cpp); NoList never
\* reaches it.
countMembersIncludingGrouped(cd, lt, inheritedFrom, additional) ==
  IF lt \in membersOf[cd] THEN 1 ELSE 0

\* addInheritedMembers: one entry for base class cd when it has a member
\* in lt1 or lt2; st is the traversal state [visited, out].
addInheritedMembers(inheritedFrom, cd, lt, lt1, lt2, additionalList, st) ==
  LET c1 == countMembersIncludingGrouped(cd, lt1, inheritedFrom, additionalList)
      c2 == IF lt2 # NoList
              THEN countMembersIncludingGrouped(cd, lt2, inheritedFrom, additionalList)
              ELSE 0
  IN IF c1 + c2 > 0
       THEN [st EXCEPT !.out = Append(@, [cd |-> cd, lt |-> lt, lt1 |-> lt1, lt2 |-> lt2])]
       ELSE st

isVisitedNever(visitedClasses, icd) == FALSE

\* visitedClasses.find(icd)!=visitedClasses.end()
isVisited(visitedClasses, icd) == icd \in visitedClasses

RECURSIVE findInheritedMembersLoop(_, _, _, _, _, _, _)
\* findInheritedMembers: the loop over the direct bases of cd from
\* position k on; lt2 is the parameter the loop body overwrites.
findInheritedMembersLoop(inheritedFrom, cd, k, lt, lt2, additionalList, st) ==
  IF k > Len(baseClasses[cd])
    THEN st
    ELSE
      LET ibcd == baseClasses[cd][k]
          icd  == ibcd.classDef
      IN IF icd \notin linkable
           THEN findInheritedMembersLoop(inheritedFrom, cd, k+1, lt, lt2, additionalList, st)
           ELSE
             LET conv == convertProtectionLevel(lt, ibcd.prot)
                 lt1  == conv[1]
                 lt3  == conv[2]
                 lt2n == IF lt2 = NoList /\ lt3 # NoList THEN lt3 ELSE lt2
             IN IF isVisited(st.visited, icd)
                  THEN findInheritedMembersLoop(inheritedFrom, cd, k+1, lt, lt2n, additionalList, st)
                  ELSE
                    LET st1 == [st EXCEPT !.visited = @ \cup {icd}]
                    IN IF lt1 # NoList
                         THEN
                           LET st2 == addInheritedMembers(inheritedFrom, icd, lt, lt1, lt2n,
                                                          additionalList, st1)
                               st3 == findInheritedMembersLoop(inheritedFrom, icd, 1, lt1, lt2n,
                                                               additionalList, st2)
                           IN findInheritedMembersLoop(inheritedFrom, cd, k+1, lt, lt2n,
                                                       additionalList, st3)
                         ELSE findInheritedMembersLoop(inheritedFrom, cd, k+1, lt, lt2n,
                                                       additionalList, st1)

\* InheritedMemberInfoListContext::Private::findInheritedMembers
findInheritedMembers(inheritedFrom, cd, lt, lt2, additionalList, st) ==
  findInheritedMembersLoop(inheritedFrom, cd, 1, lt, lt2, additionalList, st)

showAsClaimed(additionalList, memberInSection) ==
  (additionalList /\ memberInSection) \/ (~additionalList /\ ~memberInSection)

\* addMemberList: bool show = ...
show(additionalList, memberInSection) ==
  (additionalList /\ ~memberInSection) \/ (~additionalList /\ memberInSection)

keptVisited(previous) == previous

\* addMemberList: ClassDefSet visited; a new, empty set in every call
\* whatever the set of the previous call was.
newVisited(previous) == {}

\* Specification of the aggregator: the inheritance graph is any graph in
\* which a class derives from at most MaxBases classes declared before it.
BaseLists(c) ==
  LET earlier == {b \in Classes : \E i, j \in 1..Len(ClassOrder) :
                     i < j /\ ClassOrder[i] = b /\ ClassOrder[j] = c}
      entries == [classDef : earlier, prot : Protections]
  IN UNION {{s \in [1..n -> entries] :
               \A i, j \in 1..n : i # j => s[i].classDef # s[j].classDef}
            : n \in 0..MaxBases}

\* Symbol data besides the inheritance edges: all classes are linkable and
\* have members of every category, or one class has no members, or one
\* class is not linkable.
SymbolData ==
  { [unlinkable |-> {},    bare |-> {}],
    [unlinkable |-> {},    bare |-> {"A"}],
    [unlinkable |-> {},    bare |-> {"D"}],
    [unlinkable |-> {"C"}, bare |-> {}] }

InitIM ==
  /\ outputFormat = "Unspecified"
  /\ cookie = [d \in Defs |-> NoCookie]
  /\ mainPage = NoPage
  /\ symbolMap = Defs \ {"index"}
  /\ ctxs = <<>>
  /\ pc = "idle"
  /\ runs = 0
  /\ plain = {}
  /\ config = DefaultConfig
  /\ parseCalls = NoCalls
  /\ attached = {}
  /\ reqLog = <<>>
  /\ \E bB \in BaseLists("B"), bC \in BaseLists("C"), bD \in BaseLists("D") :
       baseClasses = [c \in Classes |->
                        CASE c = "B" -> bB [] c = "C" -> bC [] c = "D" -> bD [] OTHER -> <<>>]
  /\ \E data \in SymbolData :
       /\ linkable = Classes \ data.unlinkable
       /\ membersOf = [c \in Classes |-> IF c \in data.bare THEN {} ELSE ListTypes]
  /\ imList = <<>>
  /\ imCalls = <<>>
  /\ imVisited = {}
  /\ visibleClasses = Classes
  /\ language = [c \in Classes |-> "Cpp"]
  /\ vhdlEntities = {}
  /\ hiddenMap = {}
  /\ classTree = <<>>
  /\ hierBuilt = FALSE
  /\ NtIdle
  /\ PmIdle
  /\ GlIdle

\* InheritedMemberInfoListContext::addMemberList(cd, lt, title,
\* additionalList) on the list of class cd.
addMemberList(cd, lt, additionalList) ==
  /\ Len(imCalls) < MaxCalls
  /\ imCalls # <<>> => (cd = imCalls[1].cd /\ additionalList = imCalls[1].additionalList)
  /\ LET visited == newVisited(imVisited)
         memberInSection == countMembersIncludingGrouped(cd, lt, cd, FALSE) > 0
         st == IF show(additionalList, memberInSection)
                 THEN findInheritedMembers(cd, cd, lt, NoList, additionalList,
                                           [visited |-> visited, out |-> imList])
                 ELSE [visited |-> visited, out |-> imList]
     IN /\ imList' = st.out
        /\ imVisited' = st.visited
        /\ imCalls' = Append(imCalls,
              [cd |-> cd, lt |-> lt, additionalList |-> additionalList,
               memberInSection |-> memberInSection,
               lo |-> Len(imList) + 1, hi |-> Len(st.out)])
  /\ UNCHANGED <<glVars, cacheVars, graphVars, hierVars, ntVars, pmVars>>

NextIM ==
  \E cd \in {"D"}, lt \in ListTypes, additionalList \in BOOLEAN :
    addMemberList(cd, lt, additionalList)

SpecIM == InitIM /\ [][NextIM]_vars

\* ------------------------------------------------------------------------
\* Properties of the inherited-member aggregator
\* ------------------------------------------------------------------------
\* The classes of the entries call k appended to the list, in order.
EntriesOf(k) == [i \in 1..(imCalls[k].hi - imCalls[k].lo + 1) |->
                   imList[imCalls[k].lo + i - 1].cd]

\* The first direct base of cd is linkable, the edge to it translates lt
\* to a category and the base has a member of that category.
FirstBaseHasMembers(cd, lt) ==
  /\ baseClasses[cd] # <<>>
  /\ baseClasses[cd][1].classDef \in linkable
  /\ LET lt1 == convertProtectionLevel(lt, baseClasses[cd][1].prot)[1]
     IN lt1 # NoList /\ lt1 \in membersOf[baseClasses[cd][1].classDef]

\* C6 as claimed: a class with own members of category lt gets the
\* inherited ones in the additional list and none in the category; a class
\* without own members gets them in the category and none in the additional
\* list.
C6_AdditionalIffOwnMembers ==
  \A k \in DOMAIN imCalls :
    LET c == imCalls[k]
    IN /\ (c.memberInSection /\ ~c.additionalList) => EntriesOf(k) = <<>>
       /\ (~c.memberInSection /\ c.additionalList) => EntriesOf(k) = <<>>

\* C6 amended: a class with own members of category lt gets the inherited
\* ones in the category (additionalList = false) and none in the additional
\* list; a class without own members gets them in the additional list
\* (additionalList = true) and none in the category.
C6_AdditionalIffNoOwnMembers ==
  \A k \in DOMAIN imCalls :
    LET c == imCalls[k]
    IN /\ (c.memberInSection /\ c.additionalList) => EntriesOf(k) = <<>>
       /\ (~c.memberInSection /\ ~c.additionalList) => EntriesOf(k) = <<>>
       /\ (c.memberInSection # c.additionalList /\ FirstBaseHasMembers(c.cd, c.lt)) =>
            (EntriesOf(k) # <<>> /\ EntriesOf(k)[1] = baseClasses[c.cd][1].classDef)

\* Both purposes were served: one list got entries for a class without own
\* members as additional list, or for a class with own members in the
\* category.
C6_Witness ==
  \E k \in DOMAIN imCalls :
    /\ imCalls[k].additionalList
    /\ ~imCalls[k].memberInSection
    /\ Len(EntriesOf(k)) >= 2

\* C7: within one addMemberList call every ancestor contributes at most
\* one entry, and the visited set of a call starts empty: what an earlier
\* call on the list visited is visited, and contributes, again.
C7_OneEntryPerAncestor ==
  \A k \in DOMAIN imCalls :
    LET c == imCalls[k]
        e == EntriesOf(k)
    IN /\ \A i, j \in DOMAIN e : i # j => e[i] # e[j]
       /\ (c.memberInSection # c.additionalList /\ FirstBaseHasMembers(c.cd, c.lt)) =>
            \E i \in DOMAIN e : e[i] = baseClasses[c.cd][1].classDef

\* D reaches A through B and through C; two categories were aggregated and
\* A contributed to each of them.
C7_Witness ==
  /\ Len(imCalls) = 2
  /\ imCalls[1].lt # imCalls[2].lt
  /\ \E i, j \in DOMAIN baseClasses["D"] :
       /\ baseClasses["D"][i].classDef = "B"
       /\ baseClasses["D"][j].classDef = "C"
  /\ \E i \in DOMAIN baseClasses["B"] : baseClasses["B"][i].classDef = "A"
  /\ \E i \in DOMAIN baseClasses["C"] : baseClasses["C"][i].classDef = "A"
  /\ \A k \in 1..2 :
       /\ \E i \in DOMAIN EntriesOf(k) : EntriesOf(k)[i] = "A"
       /\ \E i \in DOMAIN EntriesOf(k) : EntriesOf(k)[i] = "B"
       /\ \E i \in DOMAIN EntriesOf(k) : EntriesOf(k)[i] = "C"
  /\ "A" \in imVisited

\* ------------------------------------------------------------------------
\* The class hierarchy tree (ClassHierarchyContext, NestingContext,
\* NestingNodeContext)
\* ------------------------------------------------------------------------
Languages == {"Cpp", "VHDL"}

\* The classes a BaseClassList names.
ClassesOf(bcl) == {bcl[i].classDef : i \in DOMAIN bcl}

\* ClassDef::subClasses(): the classes that list cd among their base
\* classes, in the order of their declaration (classdef.cpp).
subClasses(cd) ==
  LET all == [i \in 1..Len(ClassOrder) |->
                [classDef |-> ClassOrder[i], prot |-> "Public"]]
  IN SelectSeq(all, LAMBDA e : cd \in ClassesOf(baseClasses[e.classDef]))

RECURSIVE baseClosure(_, _)
\* The classes of frontier and all their direct and indirect base classes.
baseClosure(frontier, seen) ==
  IF frontier \subseteq seen
    THEN seen
    ELSE baseClosure(UNION {ClassesOf(baseClasses[c]) : c \in frontier},
                     seen \cup frontier)

\* hasVisibleRoot(bcl): a class of bcl, or a direct or indirect base class
\* of one, is visible in the hierarchy (classdef.cpp).
hasVisibleRoot(bcl) ==
  baseClosure(ClassesOf(bcl), {}) \cap visibleClasses # {}

\* classHasVisibleChildren(cd): a sub-class of cd, for VHDL a base class of
\* cd, is visible in the hierarchy (classdef.cpp).
classHasVisibleChildren(cd) ==
  LET bcl == IF language[cd] = "VHDL" THEN baseClasses[cd] ELSE subClasses(cd)
  IN ClassesOf(bcl) \cap visibleClasses # {}

classVisitedNever(visitedClasses, cd) == FALSE

\* addClasses: visitedClasses.find(cd)==visitedClasses.end(), negated
classVisited(visitedClasses, cd) == cd \in visitedClasses

insertNothing(visitedClasses, cd) == visitedClasses

\* addClasses: visitedClasses.insert(cd)
insertVisited(visitedClasses, cd) == visitedClasses \cup {cd}

derivedListAsSubClasses(cd) == subClasses(cd)

\* addClasses: the list handed to addDerivedClasses
derivedList(cd) ==
  IF language[cd] = "VHDL" THEN baseClasses[cd] ELSE subClasses(cd)

RECURSIVE NestingNode(_, _, _, _, _)
RECURSIVE addDerivedClassesLoop(_, _, _, _, _, _)
\* NestingNodeContext::Private::Private for a class of the inheritance
\* tree, and the addClasses(inherit = true, hideSuper, visitedClasses) it
\* runs: the node with identity id at the given level and, below it, the
\* nodes of its children. st is [visited, nodes, index]: the one
\* ClassDefSet all calls share by reference, the nodes created so far and
\* the m_index of the root list. A node MaxDepth levels down is created
\* with cut set and is not expanded.
NestingNode(cd, id, level, hideSuper, st) ==
  LET hasChildren == /\ ~classVisited(st.visited, cd)
                     /\ ~hideSuper
                     /\ classHasVisibleChildren(cd)
      cut == hasChildren /\ level + 1 >= MaxDepth
      node == [id |-> id, cd |-> cd, level |-> level,
               expanded |-> hasChildren, cut |-> cut]
      st1 == [st EXCEPT !.nodes = Append(@, node),
                        !.visited = IF hasChildren THEN insertVisited(@, cd) ELSE @]
  IN IF hasChildren /\ ~cut
       THEN addDerivedClassesLoop(derivedList(cd), 1, 0, id, level + 1, st1)
       ELSE st1

\* NestingContext::Private::addDerivedClasses(bcl, hideSuper = false,
\* visitedClasses) on the child list of node parentId, from position k of
\* bcl on; index is the m_index of that list.
addDerivedClassesLoop(bcl, k, index, parentId, level, st) ==
  IF k > Len(bcl)
    THEN st
    ELSE
      LET cd == bcl[k].classDef
      IN IF language[cd] = "VHDL" /\ cd \notin vhdlEntities
           THEN addDerivedClassesLoop(bcl, k + 1, index, parentId, level, st)
           ELSE
             LET b == IF language[cd] = "VHDL"
                        THEN hasVisibleRoot(subClasses(cd))
                        ELSE hasVisibleRoot(baseClasses[cd])
             IN IF cd \in visibleClasses /\ b
                  THEN addDerivedClassesLoop(bcl, k + 1, index + 1, parentId, level,
                         NestingNode(cd, Append(parentId, index), level, FALSE, st))
                  ELSE addDerivedClassesLoop(bcl, k + 1, index, parentId, level, st)

RECURSIVE addClassHierarchyLoop(_, _, _)
\* NestingContext::Private::addClassHierarchy(classLinkedMap,
\* visitedClasses) on the root list, from position k of the map on.
addClassHierarchyLoop(classLinkedMap, k, st) ==
  IF k > Len(classLinkedMap)
    THEN st
    ELSE
      LET cd == classLinkedMap[k]
      IN IF language[cd] = "VHDL" /\ cd \notin vhdlEntities
           THEN addClassHierarchyLoop(classLinkedMap, k + 1, st)
           ELSE
             LET b == IF language[cd] = "VHDL"
                        THEN ~hasVisibleRoot(subClasses(cd))
                        ELSE ~hasVisibleRoot(baseClasses[cd])
             IN IF b /\ cd \in visibleClasses
                  THEN addClassHierarchyLoop(classLinkedMap, k + 1,
                         [NestingNode(cd, <<st.index>>, 0, FALSE, st)
                            EXCEPT !.index = st.index + 1])
                  ELSE addClassHierarchyLoop(classLinkedMap, k + 1, st)

addClassHierarchy(classLinkedMap, st) == addClassHierarchyLoop(classLinkedMap, 1, st)

\* Doxygen::classLinkedMap and Doxygen::hiddenClassLinkedMap: every class
\* is in one of them.
classLinkedMap == SelectSeq(ClassOrder, LAMBDA c : c \notin hiddenMap)
hiddenClassLinkedMap == SelectSeq(ClassOrder, LAMBDA c : c \in hiddenMap)

\* The base class lists of the hierarchy specification: up to MaxBases
\* other classes, declared before or after the class (the sub-class
\* relation may contain a cycle), in the order of their declaration.
HierBaseLists(c) ==
  LET others == SelectSeq(ClassOrder, LAMBDA b : b # c)
      pick(S) == SelectSeq(others, LAMBDA b : b \in S)
  IN { [i \in 1..Cardinality(S) |-> [classDef |-> pick(S)[i], prot |-> "Public"]]
       : S \in {T \in SUBSET (Classes \ {c}) : Cardinality(T) <= MaxBases} }

\* A project is C++ or VHDL; in a VHDL project all classes are entities
\* or all but one.
LanguageData ==
  { [lang |-> "Cpp",  entities |-> {}],
    [lang |-> "VHDL", entities |-> Classes],
    [lang |-> "VHDL", entities |-> Classes \ {"B"}] }

InitCH ==
  /\ outputFormat = "Unspecified"
  /\ cookie = [d \in Defs |-> NoCookie]
  /\ mainPage = NoPage
  /\ symbolMap = Defs \ {"index"}
  /\ ctxs = <<>>
  /\ pc = "idle"
  /\ runs = 0
  /\ plain = {}
  /\ config = DefaultConfig
  /\ parseCalls = NoCalls
  /\ attached = {}
  /\ reqLog = <<>>
  /\ \E bA \in HierBaseLists("A"), bB \in HierBaseLists("B"),
        bC \in HierBaseLists("C"), bD \in HierBaseLists("D") :
       baseClasses = [c \in Classes |->
                        CASE c = "A" -> bA [] c = "B" -> bB [] c = "C" -> bC [] OTHER -> bD]
  /\ linkable = Classes
  /\ membersOf = [c \in Classes |-> {}]
  /\ imList = <<>>
  /\ imCalls = <<>>
  /\ imVisited = {}
  /\ visibleClasses \in SUBSET Classes
  /\ \E data \in LanguageData :
       /\ language = [c \in Classes |-> data.lang]
       /\ vhdlEntities = data.entities
  /\ hiddenMap \in {{}, {"A"}}
  /\ classTree = <<>>
  /\ hierBuilt = FALSE
  /\ NtIdle
  /\ PmIdle
  /\ GlIdle

\* ClassHierarchyContext::Private::Private: one visited set for the two
\* addClassHierarchy calls and everything they call.
BuildClassHierarchy ==
  /\ ~hierBuilt
  /\ LET visitedClasses == {}
         st0 == [visited |-> visitedClasses, nodes |-> <<>>, index |-> 0]
         st1 == addClassHierarchy(classLinkedMap, st0)
         st2 == addClassHierarchy(hiddenClassLinkedMap, st1)
     IN classTree' = st2.nodes
  /\ hierBuilt' = TRUE
  /\ UNCHANGED <<glVars, cacheVars, graphVars, imVars, visibleClasses, language,
                 vhdlEntities, hiddenMap, ntVars, pmVars>>

NextCH == BuildClassHierarchy

SpecCH == InitCH /\ [][NextCH]_vars

\* ------------------------------------------------------------------------
\* Properties of the class hierarchy tree
\* ------------------------------------------------------------------------
Nodes == {classTree[i] : i \in DOMAIN classTree}

\* Node a lies on the branch from the root to node n, above n.
Above(a, n) == Len(a.id) < Len(n.id) /\ SubSeq(n.id, 1, Len(a.id)) = a.id

\* Neither node lies on the root branch of the other.
OtherBranch(a, n) == a.id # n.id /\ ~Above(a, n) /\ ~Above(n, a)

\* The classes of the children of node n, in the order of the list.
ChildClasses(n) ==
  LET kids == {m \in Nodes : Len(m.id) = Len(n.id) + 1 /\ Above(n, m)}
  IN [i \in 1..Cardinality(kids) |->
        (CHOOSE m \in kids : m.id[Len(m.id)] = i - 1).cd]

\* The visible classes of a list, in the order of the list.
VisibleOf(bcl) ==
  LET vis == SelectSeq(bcl, LAMBDA e : e.classDef \in visibleClasses)
  IN [i \in DOMAIN vis |-> vis[i].classDef]

\* The visible entities of a list, in the order of the list.
VisibleEntitiesOf(bcl) ==
  LET vis == SelectSeq(bcl, LAMBDA e : e.classDef \in visibleClasses \cap vhdlEntities)
  IN [i \in DOMAIN vis |-> vis[i].classDef]

IsRoot(c) == \E n \in Nodes : n.level = 0 /\ n.cd = c

\* C8 as claimed: the guard is scoped to the branch, so a node whose class
\* has visible children and does not occur above it on its own branch is
\* expanded, whatever other branches hold, and a C++ class is then shown
\* with its visible sub-classes.
C8_BranchScopedGuard ==
  hierBuilt =>
    \A n \in Nodes :
      (classHasVisibleChildren(n.cd) /\ ~\E a \in Nodes : Above(a, n) /\ a.cd = n.cd)
        => /\ n.expanded
           /\ language[n.cd] = "Cpp" => ChildClasses(n) = VisibleOf(subClasses(n.cd))

\* C8 amended: the guard is one set for the whole tree. A class is
\* expanded at its first node in creation order, if it has visible
\* children, and at no later node, on the same branch or on another one;
\* a node that is not expanded has no children.
C8_TreeWideGuard ==
  hierBuilt =>
    /\ \A i, j \in DOMAIN classTree :
         (i < j /\ classTree[i].cd = classTree[j].cd) => ~classTree[j].expanded
    /\ \A j \in DOMAIN classTree :
         ((\A i \in 1..(j-1) : classTree[i].cd # classTree[j].cd)
            /\ classHasVisibleChildren(classTree[j].cd))
           => classTree[j].expanded
    /\ \A n \in Nodes : ~n.expanded => ChildClasses(n) = <<>>

\* A C++ class with a visible sub-class was expanded in one branch and is
\* a leaf in another branch, where it does not occur above itself.
C8_Witness ==
  /\ hierBuilt
  /\ \E i, j \in DOMAIN classTree :
       /\ i < j
       /\ classTree[i].cd = classTree[j].cd
       /\ language[classTree[i].cd] = "Cpp"
       /\ OtherBranch(classTree[i], classTree[j])
       /\ classTree[i].expanded
       /\ ChildClasses(classTree[i]) # <<>>
       /\ ~classTree[j].expanded
       /\ ChildClasses(classTree[j]) = <<>>
       /\ ~\E a \in Nodes : Above(a, classTree[j]) /\ a.cd = classTree[j].cd

\* C9: the construction of the tree ends for every class graph: no branch
\* reaches the depth limit of the model, a branch has at most one node
\* more than there are classes, and the expanded nodes on a branch are
\* nodes of different classes.
C9_HierarchyTerminates ==
  hierBuilt =>
    /\ \A n \in Nodes : ~n.cut /\ n.level <= Cardinality(Classes)
    /\ \A a, n \in Nodes : (Above(a, n) /\ n.expanded) => a.cd # n.cd

\* The sub-class relation has a cycle below a root: a class occurs again
\* on its own branch, and the tree was built with the second node as leaf.
C9_Witness ==
  /\ hierBuilt
  /\ \E a, n \in Nodes :
       /\ Above(a, n)
       /\ a.cd = n.cd
       /\ a.expanded
       /\ ~n.expanded
       /\ classHasVisibleChildren(n.cd)

AllOf(kind) == SelectSeq(SymOrder, LAMBDA s : KindOf(s) = kind)

\* The symbols of one kind whose outer scope is d (getNamespaces,
\* getClasses, getConcepts, subDirs, getSubPages, getSubGroups and, with
\* the owning directory as scope, getFiles), in the order of declaration.
NestedIn(kind, d) ==
  SelectSeq(SymOrder, LAMBDA s : KindOf(s) = kind /\ ntWorld.outer[s] = d)

\* The symbols of one kind that are part of group gd (GroupDef::getClasses,
\* getConcepts, getDirs, getPages, getMemberList).
GroupedIn(kind, gd) ==
  SelectSeq(SymOrder, LAMBDA s : KindOf(s) = kind /\ ntWorld.group[s] = gd)

\* The symbol fails the filter of its kind: an anonymous or unlinkable
\* namespace, a class that is not visible in the index, is a template
\* instance or a VHDL package, an unlinkable concept, an invisible or
\* external group, a member that is not visible in the index.
isHidden(s) == s \in ntWorld.hidden

\* namespaceHasNestedNamespace(nd): a linkable namespace directly in nd
namespaceHasNestedNamespace(nd) ==
  \E s \in NtSymbols : KindOf(s) = "namespace" /\ ntWorld.outer[s] = nd /\ ~isHidden(s)

\* namespaceHasNestedClass(nd, false, ClassDef::Class): a visible class in
\* nd or in a namespace directly in nd
namespaceHasNestedClass(nd) ==
  \E s \in NtSymbols :
    /\ KindOf(s) = "class" /\ ~isHidden(s)
    /\ \/ ntWorld.outer[s] = nd
       \/ \E n \in NtSymbols : /\ KindOf(n) = "namespace" /\ ntWorld.outer[n] = nd
                               /\ ntWorld.outer[s] = n

\* namespaceHasNestedConcept(nd): a linkable concept in nd or in a
\* namespace directly in nd
namespaceHasNestedConcept(nd) ==
  \E s \in NtSymbols :
    /\ KindOf(s) = "concept" /\ ~isHidden(s)
    /\ \/ ntWorld.outer[s] = nd
       \/ \E n \in NtSymbols : /\ KindOf(n) = "namespace" /\ ntWorld.outer[n] = nd
                               /\ ntWorld.outer[s] = n

\* NamespaceDef::countVisibleMembers()
countVisibleMembers(nd) ==
  Cardinality({s \in NtSymbols : KindOf(s) = "member" /\ ntWorld.outer[s] = nd /\ ~isHidden(s)})

\* One element of a collection handed to an add function: the symbol,
\* whether the function creates a node for it, the addCls and addCps
\* arguments of the node and whether it is created by addMembers.
Cand(d, accept, addCls, addCps, member) ==
  [def |-> d, accept |-> accept, addCls |-> addCls, addCps |-> addCps, member |-> member]

\* addNamespace: the conditions under which the namespace gets a node
acceptNamespace(nd, rootOnly, addClasses, addConcepts, type) ==
  /\ ~isHidden(nd)
  /\ ~rootOnly \/ ntWorld.outer[nd] = GlobalScope
  /\ \/ namespaceHasNestedNamespace(nd)
     \/ addClasses /\ namespaceHasNestedClass(nd)
     \/ addConcepts /\ namespaceHasNestedConcept(nd)
     \/ type = "Namespace" /\ countVisibleMembers(nd) > 0

acceptClassAnywhere(cd, rootOnly) == ~isHidden(cd)

\* addClass: the conditions under which the class gets a node
acceptClass(cd, rootOnly) ==
  /\ ~rootOnly \/ ntWorld.outer[cd] = NoScope \/ ntWorld.outer[cd] = GlobalScope
  /\ ~isHidden(cd)

\* addConcept: the conditions under which the concept gets a node
acceptConcept(cd, rootOnly) ==
  /\ ~rootOnly \/ ntWorld.outer[cd] = NoScope \/ ntWorld.outer[cd] = GlobalScope
  /\ ~isHidden(cd)

\* addDirs(DirLinkedMap): the condition under which the directory gets a node
acceptDir(dd) == ntWorld.outer[dd] = GlobalScope

\* addFiles(FileNameLinkedMap): fd->getDirDef()==0
acceptFile(fd) == ntWorld.outer[fd] = NoScope

\* addPage: the conditions under which the page gets a node
acceptPage(pd, rootOnly) ==
  \/ ~rootOnly
  \/ ntWorld.outer[pd] = NoScope
  \/ ntWorld.outer[pd] = GlobalScope
  \/ KindOf(ntWorld.outer[pd]) # "page"

\* addModules(GroupLinkedMap): the conditions under which the group gets a node
acceptModule(gd) == ntWorld.outer[gd] = GlobalScope /\ ~isHidden(gd)

\* The add functions of NestingContext::Private, as the elements they go
\* through with the decision taken for each.
addNamespacesCands(list, rootOnly, addClasses, addConcepts, type) ==
  [i \in DOMAIN list |->
     Cand(list[i], acceptNamespace(list[i], rootOnly, addClasses, addConcepts, type),
          addClasses, addConcepts, FALSE)]
addClassesCands(list, rootOnly) ==
  [i \in DOMAIN list |-> Cand(list[i], acceptClass(list[i], rootOnly), TRUE, FALSE, FALSE)]
addConceptsCands(list, rootOnly) ==
  [i \in DOMAIN list |-> Cand(list[i], acceptConcept(list[i], rootOnly), FALSE, TRUE, FALSE)]
addDirsMapCands(list) ==
  [i \in DOMAIN list |-> Cand(list[i], acceptDir(list[i]), FALSE, FALSE, FALSE)]
addDirsListCands(list) ==
  [i \in DOMAIN list |-> Cand(list[i], TRUE, FALSE, FALSE, FALSE)]
addFilesMapCands(list) ==
  [i \in DOMAIN list |-> Cand(list[i], acceptFile(list[i]), FALSE, FALSE, FALSE)]
addFilesListCands(list) ==
  [i \in DOMAIN list |-> Cand(list[i], TRUE, FALSE, FALSE, FALSE)]
addPagesCands(list, rootOnly) ==
  [i \in DOMAIN list |-> Cand(list[i], acceptPage(list[i], rootOnly), FALSE, FALSE, FALSE)]
addModulesMapCands(list) ==
  [i \in DOMAIN list |-> Cand(list[i], acceptModule(list[i]), FALSE, FALSE, FALSE)]
addModulesListCands(list) ==
  [i \in DOMAIN list |-> Cand(list[i], ~isHidden(list[i]), FALSE, FALSE, FALSE)]
addMembersCands(list) ==
  [i \in DOMAIN list |-> Cand(list[i], ~isHidden(list[i]), TRUE, FALSE, TRUE)]

\* NestingNodeContext::Private::Private, the calls that fill m_children:
\* addNamespaces, addClasses (inherit = false), addDirFiles, addPages and
\* addModules, in this order, for the node of symbol d.
ChildCands(d, type, addCls, addCps) ==
  LET k == KindOf(d)
      fromNamespaces ==
        IF k = "namespace"
          THEN addNamespacesCands(NestedIn("namespace", d), FALSE, addCls, addCps, type)
               \o (IF addCls THEN addClassesCands(NestedIn("class", d), FALSE) ELSE <<>>)
               \o (IF addCps THEN addConceptsCands(NestedIn("concept", d), FALSE) ELSE <<>>)
          ELSE IF k = "group"
            THEN addConceptsCands(GroupedIn("concept", d), FALSE)
            ELSE <<>>
      fromClasses ==
        IF k = "class" THEN addClassesCands(NestedIn("class", d), FALSE)
        ELSE IF k = "group" THEN addClassesCands(GroupedIn("class", d), FALSE)
        ELSE <<>>
      fromDirFiles ==
        IF k = "dir"
          THEN addDirsListCands(NestedIn("dir", d)) \o addFilesListCands(NestedIn("file", d))
          ELSE IF k = "group" THEN addDirsListCands(GroupedIn("dir", d)) ELSE <<>>
      fromPages ==
        IF k = "page" THEN addPagesCands(NestedIn("page", d), FALSE)
        ELSE IF k = "group" THEN addPagesCands(GroupedIn("page", d), FALSE)
        ELSE <<>>
      fromModules ==
        IF k = "group" THEN addModulesListCands(NestedIn("group", d)) ELSE <<>>
  IN fromNamespaces \o fromClasses \o fromDirFiles \o fromPages \o fromModules

\* NestingNodeContext::Private::addMembers: the calls that fill m_members.
MemberCands(d, type) ==
  LET k == KindOf(d)
      ofContainer ==
        IF type # "Module" /\ ntWorld.group[d] = NoGroup
          THEN IF k \in {"namespace", "class", "file"}
                 THEN addMembersCands(NestedIn("member", d))
                 ELSE <<>>
          ELSE IF k = "group" /\ type = "Module"
                 THEN addMembersCands(GroupedIn("member", d))
                 ELSE <<>>
      ofEnum ==
        IF k = "member" THEN addMembersCands(NestedIn("member", d)) ELSE <<>>
  IN ofContainer \o ofEnum

\* The root list of each tree context: the add calls of its constructor.
RootCands(type) ==
  CASE type = "ClassNesting" ->
         addNamespacesCands(AllOf("namespace"), TRUE, TRUE, FALSE, type)
         \o addClassesCands(AllOf("class"), TRUE)
    [] type = "Namespace" ->
         addNamespacesCands(AllOf("namespace"), TRUE, FALSE, TRUE, type)
    [] type = "File" ->
         addDirsMapCands(AllOf("dir")) \o addFilesMapCands(AllOf("file"))
    [] type = "Page" ->
         addPagesCands(AllOf("page"), TRUE)
    [] type = "Concept" ->
         addNamespacesCands(AllOf("namespace"), TRUE, FALSE, TRUE, type)
         \o addConceptsCands(AllOf("concept"), TRUE)
    [] OTHER ->
         addModulesMapCands(AllOf("group"))

\* NestingNodeContext::Private::Private: m_children and m_members are
\* allocated with level+1.
listLevel(level) == level + 1

\* The level the add functions other than addMembers give a node: m_level
childNodeLevel(m_level) == m_level

\* The level addMembers gives a node: m_level+1
memberNodeLevel(m_level) == m_level + 1

nextIndexAlways(m_index, appended) == m_index + 1

\* m_index++ after append, in every add function
nextIndex(m_index, appended) == IF appended THEN m_index + 1 ELSE m_index

RECURSIVE addCandsLoop(_, _, _, _, _, _, _, _, _)
RECURSIVE NtNode(_, _, _, _, _, _, _, _, _, _)
\* One NestingContext, with parent node (parentPath, parentId), level
\* m_level and counter m_index, going through cands from position k on.
\* listName tells which list of the parent it is; nodes are the nodes
\* created so far.
addCandsLoop(cands, k, m_index, parentPath, parentId, type, m_level, listName, nodes) ==
  IF k > Len(cands)
    THEN nodes
    ELSE
      LET c == cands[k]
          level == IF c.member THEN memberNodeLevel(m_level) ELSE childNodeLevel(m_level)
      IN addCandsLoop(cands, k + 1, nextIndex(m_index, c.accept), parentPath, parentId,
                      type, m_level, listName,
                      IF c.accept
                        THEN NtNode(parentPath, parentId, type, c.def, m_index, level,
                                    c.addCls, c.addCps, listName, nodes)
                        ELSE nodes)

\* NestingNodeContext::Private::Private for symbol d: the node, the nodes
\* of its children list and the nodes of its members list. path names the
\* lists and positions that lead to the node, id is NestingNodeContext::id()
\* without the separators.
NtNode(parentPath, parentId, type, d, index, level, addCls, addCps, listName, nodes) ==
  LET path == Append(parentPath, <<listName, index>>)
      id   == Append(parentId, index)
      node == [path |-> path, parent |-> parentPath, list |-> listName, id |-> id,
               def |-> d, index |-> index, level |-> level]
      n1 == Append(nodes, node)
      n2 == addCandsLoop(ChildCands(d, type, addCls, addCps), 1, 0, path, id, type,
                         listLevel(level), "children", n1)
  IN addCandsLoop(MemberCands(d, type), 1, 0, path, id, type,
                  listLevel(level), "members", n2)

\* The constructor of the tree context of the given type:
\* NestingContext::alloc(0, type, 0) and the add calls on it.
BuildTree(type) ==
  /\ ntType = NoTree
  /\ ntType' = type
  /\ ntTree' = addCandsLoop(RootCands(type), 1, 0, <<>>, <<>>, type, 0, "root", <<>>)
  /\ UNCHANGED <<glVars, cacheVars, graphVars, imVars, hierVars, pmVars, ntWorld, ntEntries, ntCache>>

\* The elements of the list listName of the node at path (the root list is
\* list "root" of the path <<>>).
ListOf(tree, path, listName) ==
  {tree[i] : i \in {j \in DOMAIN tree : tree[j].parent = path /\ tree[j].list = listName}}

ChildrenAndMembersOf(tree, n) ==
  ListOf(tree, n.path, "children") \cup ListOf(tree, n.path, "members")

\* s->get("children") of a node: its m_children
ChildrenOf(tree, n) == ListOf(tree, n.path, "children")

RECURSIVE SumOver(_, _)
\* The sum of the counts num[n] over the nodes of a list, as the loops
\* over an iterator accumulate it.
SumOver(num, nodeSet) ==
  IF nodeSet = {}
    THEN 0
    ELSE LET n == CHOOSE x \in nodeSet : TRUE
         IN num[n] + SumOver(num, nodeSet \ {n})

RECURSIVE computeMaxDepthOf(_, _)
\* computeMaxDepth(list) for a set of nodes of the tree
computeMaxDepthOf(tree, nodeSet) ==
  IF nodeSet = {}
    THEN 0
    ELSE LET n == CHOOSE x \in nodeSet : TRUE
             d == computeMaxDepthOf(tree, ChildrenOf(tree, n)) + 1
             rest == computeMaxDepthOf(tree, nodeSet \ {n})
         IN IF d > rest THEN d ELSE rest

\* computeMaxDepth(m_tree.get())
computeMaxDepth(tree) == computeMaxDepthOf(tree, ListOf(tree, <<>>, "root"))

RECURSIVE computeNumNodesAtLevelOf(_, _, _, _)
\* computeNumNodesAtLevel(s, level, maxLevel)
computeNumNodesAtLevelOf(tree, n, level, maxLevel) ==
  IF level < maxLevel
    THEN 1 + SumOver([c \in ChildrenOf(tree, n) |->
                        computeNumNodesAtLevelOf(tree, c, level + 1, maxLevel)],
                     ChildrenOf(tree, n))
    ELSE 0

\* computePreferredDepth: num, the sum over the roots for depth i
NumAt(tree, i) ==
  SumOver([c \in ListOf(tree, <<>>, "root") |-> computeNumNodesAtLevelOf(tree, c, 0, i)],
          ListOf(tree, <<>>, "root"))

breakNever(num, preferredNumEntries) == TRUE

\* computePreferredDepth: if (num<=preferredNumEntries)
withinPreferred(num, preferredNumEntries) == num <= preferredNumEntries

RECURSIVE computePreferredDepthLoop(_, _, _, _, _)
\* computePreferredDepth: the loop for (int i=1;i<=depth;i++) from i on
computePreferredDepthLoop(tree, depth, preferredNumEntries, i, preferredDepth) ==
  IF i > depth
    THEN preferredDepth
    ELSE IF withinPreferred(NumAt(tree, i), preferredNumEntries)
           THEN computePreferredDepthLoop(tree, depth, preferredNumEntries, i + 1, i)
           ELSE preferredDepth

\* computePreferredDepth(list, maxDepth)
computePreferredDepth(tree, maxDepth, preferredNumEntries) ==
  IF preferredNumEntries > 0
    THEN computePreferredDepthLoop(tree, maxDepth, preferredNumEntries, 1, 1)
    ELSE 1

\* m_cache after maxDepth() ran on it
withMaxDepth(cache, tree) ==
  IF cache.maxDepthComputed
    THEN cache
    ELSE [cache EXCEPT !.maxDepth = computeMaxDepth(tree), !.maxDepthComputed = TRUE]

\* The maxDepth() property of the tree context.
maxDepth ==
  /\ ntType # NoTree
  /\ ~ntCache.maxDepthComputed
  /\ ntCache' = withMaxDepth(ntCache, ntTree)
  /\ UNCHANGED <<glVars, cacheVars, graphVars, imVars, hierVars, pmVars, ntWorld, ntEntries,
                 ntType, ntTree>>

\* The preferredDepth() property of the tree context; it calls maxDepth().
preferredDepth ==
  /\ ntType # NoTree
  /\ ~ntCache.preferredDepthComputed
  /\ LET c1 == withMaxDepth(ntCache, ntTree)
     IN ntCache' = [c1 EXCEPT
                      !.preferredDepth = computePreferredDepth(ntTree, c1.maxDepth, ntEntries),
                      !.preferredDepthComputed = TRUE]
  /\ UNCHANGED <<glVars, cacheVars, graphVars, imVars, hierVars, pmVars, ntWorld, ntEntries,
                 ntType, ntTree>>

\* DefaultWorld with the outer scopes, groups and filtered symbols given
\* for some symbols.
World(outers, groups, hidden) ==
  [outer  |-> [s \in NtSymbols |->
                 IF s \in DOMAIN outers THEN outers[s] ELSE DefaultWorld.outer[s]],
   group  |-> [s \in NtSymbols |->
                 IF s \in DOMAIN groups THEN groups[s] ELSE DefaultWorld.group[s]],
   hidden |-> hidden]

\* Projects that differ in the nesting of namespaces, classes, concepts
\* and members.
ScopeWorlds ==
  { World([N1 |-> n1, N2 |-> n2, K1 |-> k1, K2 |-> k2, Q1 |-> q1, m1 |-> c1, m2 |-> c2],
          <<>>, h) :
      n1 \in {NoScope, GlobalScope}, n2 \in {GlobalScope, "N1"},
      k1 \in {NoScope, GlobalScope, "N1", "N2"}, k2 \in {GlobalScope, "N1", "K1"},
      q1 \in {NoScope, GlobalScope, "N1"},
      c1 \in {"K1", "N1"}, c2 \in {"K1", "N2", "m1"},
      h \in {{}, {"K1"}, {"m1"}, {"N2"}} }

\* Projects that differ in the directories of the files.
FileWorlds ==
  { World([D1 |-> d1, D2 |-> d2, F1 |-> f1, F2 |-> f2, m1 |-> c1], <<>>, {}) :
      d1 \in {NoScope, GlobalScope}, d2 \in {NoScope, GlobalScope, "D1"},
      f1 \in {NoScope, "D1", "D2"}, f2 \in {NoScope, "D1", "D2"},
      c1 \in {"K1", "F1"} }

\* Projects that differ in the outer scopes of the pages.
PageWorlds ==
  { World([P1 |-> p1, P2 |-> p2], [P1 |-> g1], {}) :
      p1 \in {NoScope, GlobalScope, "G1"}, p2 \in {NoScope, GlobalScope, "P1", "K1"},
      g1 \in {NoGroup, "G1"} }

\* Projects that differ in the groups.
GroupWorlds ==
  { World([G2 |-> g2], [K1 |-> gk, P1 |-> gp, D1 |-> gd, Q1 |-> gq, m1 |-> gm], h) :
      g2 \in {GlobalScope, "G1"},
      gk \in {NoGroup, "G1"}, gp \in {NoGroup, "G2"}, gd \in {NoGroup, "G1"},
      gq \in {NoGroup, "G2"}, gm \in {NoGroup, "G1"},
      h \in {{}, {"G2"}} }

InitNT ==
  /\ outputFormat = "Unspecified"
  /\ cookie = [d \in Defs |-> NoCookie]
  /\ mainPage = NoPage
  /\ symbolMap = Defs \ {"index"}
  /\ ctxs = <<>>
  /\ pc = "idle"
  /\ runs = 0
  /\ plain = {}
  /\ config = DefaultConfig
  /\ parseCalls = NoCalls
  /\ attached = {}
  /\ reqLog = <<>>
  /\ baseClasses = [c \in Classes |-> <<>>]
  /\ linkable = Classes
  /\ membersOf = [c \in Classes |-> {}]
  /\ imList = <<>>
  /\ imCalls = <<>>
  /\ imVisited = {}
  /\ visibleClasses = Classes
  /\ language = [c \in Classes |-> "Cpp"]
  /\ vhdlEntities = {}
  /\ hiddenMap = {}
  /\ classTree = <<>>
  /\ hierBuilt = FALSE
  /\ ntWorld \in ScopeWorlds \cup FileWorlds \cup PageWorlds \cup GroupWorlds
  /\ ntEntries \in 0..MaxEntries
  /\ ntType = NoTree
  /\ ntTree = <<>>
  /\ ntCache = NewTreeCache
  /\ PmIdle
  /\ GlIdle

NextNT ==
  \/ \E type \in TreeTypes : BuildTree(type)
  \/ maxDepth
  \/ preferredDepth

SpecNT == InitNT /\ [][NextNT]_vars

\* ------------------------------------------------------------------------
\* Properties of the containment trees
\* ------------------------------------------------------------------------
NtNodes == {ntTree[i] : i \in DOMAIN ntTree}

\* The nodes reached from the root list through children lists only.
ChildPathNodes ==
  {n \in NtNodes : \A i \in DOMAIN n.path : n.path[i][1] \in {"root", "children"}}

\* The number of nodes on the longest path that follows children only.
TreeDepth ==
  IF ChildPathNodes = {}
    THEN 0
    ELSE CHOOSE d \in 1..Len(SymOrder) :
           /\ \E n \in ChildPathNodes : Len(n.path) = d
           /\ \A n \in ChildPathNodes : Len(n.path) <= d

\* The number of nodes within the first i levels, children only.
CountUpTo(i) == Cardinality({n \in ChildPathNodes : Len(n.path) <= i})

\* The node that holds the list node n is in.
ContainerOf(n) == CHOOSE c \in NtNodes : c.path = n.parent

\* The position of a symbol in the global order of declaration.
SymPos(d) == CHOOSE i \in DOMAIN SymOrder : SymOrder[i] = d

\* The position at which a node was created.
TreePos(n) == CHOOSE i \in DOMAIN ntTree : ntTree[i] = n

IsNtRoot(d) == \E n \in NtNodes : n.list = "root" /\ n.def = d

\* C11 as claimed: the preferred depth of a tree never exceeds its maximum
\* depth.
C11_PreferredWithinMax ==
  (ntCache.preferredDepthComputed /\ ntCache.maxDepthComputed)
    => ntCache.preferredDepth <= ntCache.maxDepth

\* C12: the preferred depth is 1 without threshold and when level 1 alone
\* exceeds the threshold; otherwise it is the largest depth up to the
\* maximum depth such that the tree has at most T nodes within it and
\* within every smaller depth, so the tree has at most T nodes within the
\* preferred depth.
C12_PreferredDepthIsLargestWithinT ==
  ntCache.preferredDepthComputed =>
    LET T  == ntEntries
        pd == ntCache.preferredDepth
    IN /\ T <= 0 => pd = 1
       /\ (T > 0 /\ CountUpTo(1) > T) => pd = 1
       /\ (T > 0 /\ CountUpTo(1) <= T /\ TreeDepth >= 1) =>
            /\ pd \in 1..TreeDepth
            /\ \A j \in 1..pd : CountUpTo(j) <= T
            /\ pd < TreeDepth => CountUpTo(pd + 1) > T
       /\ (T > 0 /\ CountUpTo(1) <= T) => CountUpTo(pd) <= T

\* The file tree with roots D1 and F1 and file F2 in D1, threshold 2: two
\* nodes within depth 1, three within depth 2, preferred depth 1.
C12_Witness ==
  /\ ntType = "File"
  /\ ntCache.preferredDepthComputed
  /\ ntEntries = 2
  /\ {n.def : n \in ListOf(ntTree, <<>>, "root")} = {"D1", "F1"}
  /\ \E n \in NtNodes : n.def = "F2" /\ n.list = "children" /\ ContainerOf(n).def = "D1"
  /\ CountUpTo(1) = 2 /\ CountUpTo(2) = 3
  /\ ntCache.preferredDepth = 1

\* C13: the maximum depth is 0 for the empty tree and else the number of
\* nodes on the longest path from a root that follows children only.
C13_MaxDepthIsLongestChildPath ==
  ntCache.maxDepthComputed => ntCache.maxDepth = TreeDepth

\* A tree of depth 2 whose members lists reach deeper than its children.
C13_Witness ==
  /\ ntCache.maxDepthComputed
  /\ ntCache.maxDepth = 2
  /\ \E n \in NtNodes : n.list = "members" /\ Len(n.path) > 2

\* C14 as claimed: a node in the members list of a container is one level
\* below the container, as the container's children are.
C14_MemberOneLevelBelow ==
  \A n \in NtNodes :
    (n.list = "members") => n.level = ContainerOf(n).level + 1

\* The symbol is of a kind the tree collects as roots and passes the
\* filters of its kind other than the one on its scope.
Eligible(d, type) ==
  CASE KindOf(d) = "namespace" ->
         /\ type \in {"ClassNesting", "Namespace", "Concept"}
         /\ acceptNamespace(d, FALSE, type = "ClassNesting", type # "ClassNesting", type)
    [] KindOf(d) = "class"   -> type = "ClassNesting" /\ ~isHidden(d)
    [] KindOf(d) = "concept" -> type = "Concept" /\ ~isHidden(d)
    [] KindOf(d) = "dir"     -> type = "File"
    [] KindOf(d) = "file"    -> type = "File"
    [] KindOf(d) = "page"    -> type = "Page"
    [] OTHER -> FALSE

\* The outer scope of the symbol is a symbol that has a node in the tree.
NestedInTree(d) == \E n \in NtNodes : n.def = ntWorld.outer[d]

\* C15 as claimed: a class, concept, namespace, directory or page without
\* outer scope or in the global scope is a root, a file without directory
\* is a root, and a symbol nested in a symbol of the tree is no root.
C15_RootIfTopLevel ==
  ntType # NoTree =>
    \A d \in NtSymbols :
      /\ (Eligible(d, ntType) /\ KindOf(d) # "file"
            /\ ntWorld.outer[d] \in {NoScope, GlobalScope}) => IsNtRoot(d)
      /\ (Eligible(d, ntType) /\ KindOf(d) = "file" /\ ntWorld.outer[d] = NoScope)
           => IsNtRoot(d)
      /\ NestedInTree(d) => ~IsNtRoot(d)

\* C15 amended: a class or concept is a root exactly when it has no outer
\* scope or is in the global scope, a namespace or directory exactly when
\* it is in the global scope, a page exactly when it has no outer scope or
\* its outer scope is not a page, a file exactly when it has no directory;
\* a symbol nested in a symbol of the tree is no root.
C15_RootRuleByKind ==
  ntType # NoTree =>
    \A d \in NtSymbols :
      /\ IsNtRoot(d) <=>
           /\ KindOf(d) = "group" \/ Eligible(d, ntType)
           /\ CASE KindOf(d) \in {"class", "concept"} ->
                     ntWorld.outer[d] \in {NoScope, GlobalScope}
                [] KindOf(d) \in {"namespace", "dir"} ->
                     ntWorld.outer[d] = GlobalScope
                [] KindOf(d) = "page" ->
                     \/ ntWorld.outer[d] \in {NoScope, GlobalScope}
                     \/ KindOf(ntWorld.outer[d]) # "page"
                [] KindOf(d) = "file" ->
                     ntWorld.outer[d] = NoScope
                [] KindOf(d) = "group" ->
                     ntType = "Module" /\ acceptModule(d)
                [] OTHER -> FALSE
      /\ NestedInTree(d) => ~IsNtRoot(d)

\* The class tree of a project with a class nested in a class that is a
\* root, a class in a namespace and a namespace without outer scope that
\* has a visible class and is no root.
C15_Witness ==
  /\ ntType = "ClassNesting"
  /\ IsNtRoot("K1")
  /\ ntWorld.outer["K2"] = "K1" /\ ~IsNtRoot("K2")
  /\ \E n \in NtNodes : n.def = "K2" /\ n.list = "children"
  /\ ntWorld.outer["N1"] = NoScope /\ Eligible("N1", ntType) /\ ~IsNtRoot("N1")

\* The nodes of one list.
SameList(a, b) == a.parent = b.parent /\ a.list = b.list

\* C16: the nodes of a list carry the indices 0, 1, ... in the order in
\* which they were appended, without gap, and nodes that come from one
\* collection are in the order of the collection.
C16_IndexIsPosition ==
  \A n \in NtNodes :
    LET sibs == {m \in NtNodes : SameList(m, n)}
    IN /\ n.index \in 0..(Cardinality(sibs) - 1)
       /\ \A m \in sibs :
            /\ (m.index = n.index) => m = n
            /\ (m.index < n.index) <=> (TreePos(m) < TreePos(n))
            /\ (m.index < n.index /\ KindOf(m.def) = KindOf(n.def))
                 => SymPos(m.def) < SymPos(n.def)

\* A root list in which a filtered class precedes a class that got index
\* 0: no namespace is a root and the filtered class consumed no index.
C16_Witness ==
  /\ ntType = "ClassNesting"
  /\ isHidden("K1") /\ ntWorld.outer["K1"] = GlobalScope
  /\ \E n \in NtNodes : n.def = "K2" /\ n.list = "root" /\ n.index = 0
  /\ ntWorld.outer["K2"] = GlobalScope

\* ------------------------------------------------------------------------
\* The property table (PropertyMapper)
\* ------------------------------------------------------------------------
\* Property names are strings, here sequences of character codes; the
\* handlers are member functions of the context object.
PropNames == {<<1>>, <<1, 2>>, <<2>>, <<2, 1>>}
Handlers == {"h1", "h2"}
NoHandler == "none"

\* The value a handler returns for the object.
Invoke(handler) == <<"value", handler>>

\* m_map.find(name)!=m_map.end()
Registered(map, name) == \E e \in map : e.name = name

\* it->second for a registered name
HandlerOf(map, name) == (CHOOSE e \in map : e.name = name).handler

addPropertyOverwrite(map, name, handle) ==
  [map    |-> {e \in map : e.name # name} \cup {[name |-> name, handler |-> handle]},
   errors |-> IF Registered(map, name) THEN 1 ELSE 0]

\* PropertyMapper::addProperty(name, handle): the table afterwards and the
\* number of errors reported.
addPropertyTo(map, name, handle) ==
  IF Registered(map, name)
    THEN [map |-> map, errors |-> 1]
    ELSE [map |-> map \cup {[name |-> name, handler |-> handle]}, errors |-> 0]

getInvokesAny(map, name) ==
  IF map = {}
    THEN [result |-> NoneVariant, called |-> NoHandler]
    ELSE LET h == IF Registered(map, name) THEN HandlerOf(map, name)
                  ELSE (CHOOSE e \in map : TRUE).handler
         IN [result |-> Invoke(h), called |-> h]

\* PropertyMapper::get(obj, name): the variant returned and the handler
\* that was invoked for it.
getFrom(map, name) ==
  IF Registered(map, name)
    THEN [result |-> Invoke(HandlerOf(map, name)), called |-> HandlerOf(map, name)]
    ELSE [result |-> NoneVariant, called |-> NoHandler]

RECURSIVE stringLess(_, _)
\* std::string operator<: the comparison std::sort uses
stringLess(a, b) ==
  IF b = <<>> THEN FALSE
  ELSE IF a = <<>> THEN TRUE
  ELSE IF Head(a) # Head(b) THEN Head(a) < Head(b)
  ELSE stringLess(Tail(a), Tail(b))

RECURSIVE insertSorted(_, _)
\* The sorted sequence with one more element.
insertSorted(x, sorted) ==
  IF sorted = <<>> THEN <<x>>
  ELSE IF stringLess(x, Head(sorted)) THEN <<x>> \o sorted
  ELSE <<Head(sorted)>> \o insertSorted(x, Tail(sorted))

RECURSIVE sortFrom(_, _)
sortFrom(list, sorted) ==
  IF list = <<>> THEN sorted ELSE sortFrom(Tail(list), insertSorted(Head(list), sorted))

sortNot(result) == result

\* fields: std::sort(result.begin(),result.end())
sort(result) == sortFrom(result, <<>>)

\* The orders in which the loop over the unordered m_map can push the
\* names.
IterationOrders(map) ==
  LET names == {e.name : e \in map}
      n == Cardinality(names)
  IN {f \in [1..n -> names] : \A i, j \in 1..n : i # j => f[i] # f[j]}

\* One entry of the call log.
LogEntry(op, name, arg, result, called, mapBefore, mapAfter, errors) ==
  [op |-> op, name |-> name, arg |-> arg, result |-> result, called |-> called,
   mapBefore |-> mapBefore, mapAfter |-> mapAfter,
   errorsBefore |-> pmErrors, errorsAfter |-> pmErrors + errors]

\* PropertyMapper::addProperty(name, handle)
addProperty(name, handle) ==
  /\ Len(pmLog) < MaxOps
  /\ LET r == addPropertyTo(pmMap, name, handle)
     IN /\ pmMap' = r.map
        /\ pmErrors' = pmErrors + r.errors
        /\ pmLog' = Append(pmLog, LogEntry("addProperty", name, handle, NoneVariant,
                                            NoHandler, pmMap, r.map, r.errors))
  /\ UNCHANGED <<glVars, cacheVars, graphVars, imVars, hierVars, ntVars>>

\* PropertyMapper::get(obj, name)
get(name) ==
  /\ Len(pmLog) < MaxOps
  /\ LET r == getFrom(pmMap, name)
     IN pmLog' = Append(pmLog, LogEntry("get", name, NoHandler, r.result, r.called,
                                        pmMap, pmMap, 0))
  /\ UNCHANGED <<glVars, cacheVars, graphVars, imVars, hierVars, ntVars, pmMap, pmErrors>>

\* PropertyMapper::fields()
fields ==
  /\ Len(pmLog) < MaxOps
  /\ \E result \in IterationOrders(pmMap) :
       pmLog' = Append(pmLog, LogEntry("fields", <<>>, NoHandler, sort(result), NoHandler,
                                       pmMap, pmMap, 0))
  /\ UNCHANGED <<glVars, cacheVars, graphVars, imVars, hierVars, ntVars, pmMap, pmErrors>>

InitPM ==
  /\ outputFormat = "Unspecified"
  /\ cookie = [d \in Defs |-> NoCookie]
  /\ mainPage = NoPage
  /\ symbolMap = Defs \ {"index"}
  /\ ctxs = <<>>
  /\ pc = "idle"
  /\ runs = 0
  /\ plain = {}
  /\ config = DefaultConfig
  /\ parseCalls = NoCalls
  /\ attached = {}
  /\ reqLog = <<>>
  /\ baseClasses = [c \in Classes |-> <<>>]
  /\ linkable = Classes
  /\ membersOf = [c \in Classes |-> {}]
  /\ imList = <<>>
  /\ imCalls = <<>>
  /\ imVisited = {}
  /\ visibleClasses = Classes
  /\ language = [c \in Classes |-> "Cpp"]
  /\ vhdlEntities = {}
  /\ hiddenMap = {}
  /\ classTree = <<>>
  /\ hierBuilt = FALSE
  /\ NtIdle
  /\ PmIdle
  /\ GlIdle

NextPM ==
  \/ \E name \in PropNames, handle \in Handlers : addProperty(name, handle)
  \/ \E name \in PropNames : get(name)
  \/ fields

SpecPM == InitPM /\ [][NextPM]_vars

\* ------------------------------------------------------------------------
\* Properties of the property table
\* ------------------------------------------------------------------------
\* The names registered before call k, by the log alone.
AddedBefore(k) == {pmLog[i].name : i \in {j \in 1..(k-1) : pmLog[j].op = "addProperty"}}

\* Lexicographic order of two strings: they differ first at a position
\* where a has the smaller character, or a is a proper prefix of b.
LexLess(a, b) ==
  \E k \in 1..Len(b) :
    /\ \A i \in 1..(k-1) : i <= Len(a) /\ a[i] = b[i]
    /\ \/ k = Len(a) + 1
       \/ k <= Len(a) /\ a[k] < b[k]

\* C17: get for a name that was never registered returns the None variant,
\* invokes no handler and leaves the table and the error count as they
\* were.
C17_UnknownNameYieldsNone ==
  \A k \in DOMAIN pmLog :
    (pmLog[k].op = "get" /\ pmLog[k].name \notin AddedBefore(k)) =>
      /\ pmLog[k].result = NoneVariant
      /\ pmLog[k].called = NoHandler
      /\ pmLog[k].mapAfter = pmLog[k].mapBefore
      /\ pmLog[k].errorsAfter = pmLog[k].errorsBefore

\* Properties were registered, one was read with its handler, and then a
\* name that was never registered was requested.
C17_Witness ==
  \E i, j, k \in DOMAIN pmLog :
    /\ i < j /\ j < k
    /\ pmLog[i].op = "addProperty"
    /\ pmLog[j].op = "get" /\ pmLog[j].name = pmLog[i].name
    /\ pmLog[j].result = Invoke(pmLog[i].arg)
    /\ pmLog[k].op = "get" /\ pmLog[k].name \notin AddedBefore(k)
    /\ pmLog[k].result = NoneVariant

\* C18: addProperty for a name that is registered reports one error and
\* leaves the table as it was; the handler registered first stays bound to
\* the name, and later calls are served.
C18_DuplicateIsReportedAndIgnored ==
  \A k \in DOMAIN pmLog :
    (pmLog[k].op = "addProperty" /\ pmLog[k].name \in AddedBefore(k)) =>
      LET first == CHOOSE i \in 1..(k-1) :
                     /\ pmLog[i].op = "addProperty" /\ pmLog[i].name = pmLog[k].name
                     /\ \A j \in 1..(i-1) :
                          ~(pmLog[j].op = "addProperty" /\ pmLog[j].name = pmLog[k].name)
      IN /\ pmLog[k].errorsAfter = pmLog[k].errorsBefore + 1
         /\ pmLog[k].mapAfter = pmLog[k].mapBefore
         /\ [name |-> pmLog[k].name, handler |-> pmLog[first].arg] \in pmLog[k].mapAfter
         /\ \A j \in (k+1)..Len(pmLog) :
              (pmLog[j].op = "get" /\ pmLog[j].name = pmLog[k].name)
                => pmLog[j].called = pmLog[first].arg

\* A name was registered with one handler, then with another one, and a
\* later get invoked the first handler.
C18_Witness ==
  \E i, j, k \in DOMAIN pmLog :
    /\ i < j /\ j < k
    /\ pmLog[i].op = "addProperty" /\ pmLog[j].op = "addProperty"
    /\ pmLog[i].name = pmLog[j].name /\ pmLog[i].arg # pmLog[j].arg
    /\ pmLog[k].op = "get" /\ pmLog[k].name = pmLog[i].name
    /\ pmLog[k].called = pmLog[i].arg
    /\ pmErrors = 1

\* C19: fields returns the names registered so far, each once, in
\* ascending lexicographic order.
C19_FieldsSortedOnce ==
  \A k \in DOMAIN pmLog :
    pmLog[k].op = "fields" =>
      LET r == pmLog[k].result
      IN /\ {r[i] : i \in DOMAIN r} = AddedBefore(k)
         /\ Len(r) = Cardinality(AddedBefore(k))
         /\ \A i \in 1..(Len(r) - 1) : LexLess(r[i], r[i+1])

\* Three names were registered in descending order, one of them a prefix
\* of another, and fields listed them.
C19_Witness ==
  /\ Len(pmLog) = 4
  /\ \A i \in 1..3 : pmLog[i].op = "addProperty"
  /\ LexLess(pmLog[3].name, pmLog[2].name) /\ LexLess(pmLog[2].name, pmLog[1].name)
  /\ pmLog[3].name = <<1>> /\ pmLog[2].name = <<1, 2>>
  /\ pmLog[4].op = "fields"
  /\ pmLog[4].result = <<pmLog[3].name, pmLog[2].name, pmLog[1].name>>

\* ------------------------------------------------------------------------
\* Delegate properties (TranslateContext, MemberContext)
\* ------------------------------------------------------------------------
\* The properties that return a function delegate.
Delegates ==
  {"tr.generatedAt", "tr.inheritanceDiagramFor", "tr.collaborationDiagramFor",
   "tr.dirDependencyGraphFor", "tr.inheritsList", "tr.inheritedByList", "tr.writeList",
   "tr.implementedBy", "tr.reimplementedBy", "tr.sourceRefs", "tr.sourceRefBys",
   "tr.includeDependencyGraph", "member.detailsVisibleFor", "member.nameWithContextFor"}

\* The translator or symbol function behind each delegate.
Underlying(del) ==
  CASE del = "tr.generatedAt"               -> "trGeneratedAt"
    [] del = "tr.inheritanceDiagramFor"     -> "trClassDiagram"
    [] del = "tr.collaborationDiagramFor"   -> "trCollaborationDiagram"
    [] del = "tr.dirDependencyGraphFor"     -> "trDirDepGraph"
    [] del = "tr.inheritsList"              -> "trInheritsList"
    [] del = "tr.inheritedByList"           -> "trInheritedByList"
    [] del = "tr.writeList"                 -> "trWriteList"
    [] del = "tr.implementedBy"             -> "trImplementedInList"
    [] del = "tr.reimplementedBy"           -> "trReimplementedInList"
    [] del = "tr.sourceRefs"                -> "trReferences"
    [] del = "tr.sourceRefBys"              -> "trReferencedBy"
    [] del = "tr.includeDependencyGraph"    -> "trInclDepGraph"
    [] del = "member.detailsVisibleFor"     -> "isDetailedSectionVisible"
    [] OTHER                                -> "name"

\* The args.size() each handler tests for.
argsChecked(del) == IF del = "tr.generatedAt" THEN 2 ELSE 1

\* The number of arguments the handler's error message asks for.
argsDocumented(del) == IF del = "tr.generatedAt" THEN 2 ELSE 1

arityAtLeast(del, size) == size >= argsChecked(del)

\* if (args.size()==N)
arityOk(del, size) == size = argsChecked(del)

\* handleGeneratedAt, handleInheritsList, handleDetailsVisibleFor and the
\* other handlers, called with size arguments.
handle(del, size) ==
  IF arityOk(del, size)
    THEN [result |-> Invoke(Underlying(del)), called |-> Underlying(del), errors |-> 0]
    ELSE [result |-> NoneVariant, called |-> NoHandler, errors |-> 1]

\* A template calls the delegate del with size arguments.
callDelegate(del, size) ==
  /\ Len(pmLog) < MaxDelegateCalls
  /\ LET r == handle(del, size)
     IN /\ pmErrors' = pmErrors + r.errors
        /\ pmLog' = Append(pmLog, LogEntry("call", del, size, r.result, r.called,
                                           pmMap, pmMap, r.errors))
  /\ UNCHANGED <<glVars, cacheVars, graphVars, imVars, hierVars, ntVars, pmMap>>

NextDG == \E del \in Delegates, size \in 0..MaxArgs : callDelegate(del, size)

SpecDG == InitPM /\ [][NextDG]_vars

\* C20: a delegate called with another number of arguments than it asks
\* for reports one error, returns the None variant and does not call the
\* function behind it; called with that number, it calls the function and
\* reports no error.
C20_ArityErrorYieldsNone ==
  \A k \in DOMAIN pmLog :
    pmLog[k].op = "call" =>
      IF pmLog[k].arg = argsDocumented(pmLog[k].name)
        THEN /\ pmLog[k].errorsAfter = pmLog[k].errorsBefore
             /\ pmLog[k].called = Underlying(pmLog[k].name)
        ELSE /\ pmLog[k].errorsAfter = pmLog[k].errorsBefore + 1
             /\ pmLog[k].result = NoneVariant
             /\ pmLog[k].called = NoHandler

\* tr.generatedAt was called with three arguments and reported an error,
\* and member.detailsVisibleFor was then served with one argument.
C20_Witness ==
  /\ Len(pmLog) = 2
  /\ pmLog[1].name = "tr.generatedAt" /\ pmLog[1].arg = 3
  /\ pmLog[1].result = NoneVariant /\ pmLog[1].errorsAfter = 1
  /\ pmLog[2].name = "member.detailsVisibleFor" /\ pmLog[2].arg = 1
  /\ pmLog[2].called = "isDetailedSectionVisible" /\ pmLog[2].errorsAfter = 1

\* ------------------------------------------------------------------------
\* GenericNodeListContext and GenericConstIterator
\* ------------------------------------------------------------------------
\* The values a caller appends to a list.
ListElems == {"a", "b"}

\* The TemplateVariant that wraps an appended value.
Elem(x) == <<"node", x>>

\* count(): m_children.size()
count(list) == Len(list)

inRangeButLast(index, size) == index + 1 < size

\* at: if (index<count())
inRange(index, size) == index < size

\* at(index); index is unsigned
atOf(list, index) ==
  IF inRange(index, count(list)) THEN list[index + 1] ELSE NoneVariant

\* toLast: m_index=static_cast<int>(m_list.size())-1
toLastIndex(size) == size - 1

toNextUnguarded(m_index, size) == m_index + 1

\* toNext: if (m_index < static_cast<int>(m_list.size())) ++m_index
toNextIndex(m_index, size) == IF m_index < size THEN m_index + 1 ELSE m_index

\* toPrev: if (m_index>=0) --m_index
toPrevIndex(m_index) == IF m_index >= 0 THEN m_index - 1 ELSE m_index

\* current(v): the return value and the value stored in v
currentOf(list, m_index) ==
  IF m_index >= 0 /\ m_index < Len(list)
    THEN [ok |-> TRUE, v |-> list[m_index + 1]]
    ELSE [ok |-> FALSE, v |-> NoneVariant]

moveAllCursors(cursors, c, index) == [d \in DOMAIN cursors |-> index]

\* m_index is a field of the cursor object: a move writes this cursor's
\* m_index only.
moveCursor(cursors, c, index) == [cursors EXCEPT ![c] = index]

\* append(ctn)
append(x) ==
  /\ Len(glList) < MaxListLen
  /\ glList' = Append(glList, Elem(x))
  /\ glLast' = Call("append", 0, 0, NoneVariant, TRUE, glList, glCursors)
  /\ UNCHANGED <<glCursors, cacheVars, graphVars, imVars, hierVars, ntVars, pmVars>>

\* at(index)
at(index) ==
  /\ glLast' = Call("at", 0, index, atOf(glList, index), TRUE, glList, glCursors)
  /\ UNCHANGED <<glList, glCursors, cacheVars, graphVars, imVars, hierVars, ntVars, pmVars>>

\* createIterator(): a new cursor with m_index=0
createIterator ==
  /\ Len(glCursors) < MaxCursors
  /\ glCursors' = Append(glCursors, 0)
  /\ glLast' = Call("createIterator", Len(glCursors) + 1, 0, NoneVariant, TRUE,
                    glList, glCursors)
  /\ UNCHANGED <<glList, cacheVars, graphVars, imVars, hierVars, ntVars, pmVars>>

\* A cursor call that sets m_index of cursor c.
Move(op, c, index) ==
  /\ glCursors' = moveCursor(glCursors, c, index)
  /\ glLast' = Call(op, c, 0, NoneVariant, TRUE, glList, glCursors)
  /\ UNCHANGED <<glList, cacheVars, graphVars, imVars, hierVars, ntVars, pmVars>>

toFirst(c) == Move("toFirst", c, 0)

toLast(c) == Move("toLast", c, toLastIndex(Len(glList)))

toNext(c) == Move("toNext", c, toNextIndex(glCursors[c], Len(glList)))

toPrev(c) == Move("toPrev", c, toPrevIndex(glCursors[c]))

\* current(v) on cursor c
current(c) ==
  /\ LET r == currentOf(glList, glCursors[c])
     IN glLast' = Call("current", c, 0, r.v, r.ok, glList, glCursors)
  /\ UNCHANGED <<glList, glCursors, cacheVars, graphVars, imVars, hierVars, ntVars, pmVars>>

InitGL == InitPM

NextGL ==
  \/ \E x \in ListElems : append(x)
  \/ \E index \in 0..(MaxListLen + 1) : at(index)
  \/ createIterator
  \/ \E c \in DOMAIN glCursors :
       \/ toFirst(c)
       \/ toLast(c)
       \/ toNext(c)
       \/ toPrev(c)
       \/ current(c)

SpecGL == InitGL /\ [][NextGL]_vars

\* ------------------------------------------------------------------------
\* Properties of the list and its cursors
\* ------------------------------------------------------------------------
CursorMoves == {"toFirst", "toLast", "toNext", "toPrev"}

\* C21: at(index) returns the element appended at that position when
\* index < count() and the None variant for every other index, and leaves
\* the list as it was.
C21_AtInRangeOrNone ==
  glLast.op = "at" =>
    /\ glList = glLast.listBefore
    /\ IF glLast.arg < Len(glLast.listBefore)
         THEN glLast.result = glLast.listBefore[glLast.arg + 1]
         ELSE glLast.result = NoneVariant

\* at(count()) on a list of two elements returned the None variant.
C21_Witness ==
  /\ glLast.op = "at"
  /\ Len(glList) = 2
  /\ glLast.arg = 2
  /\ glLast.result = NoneVariant

\* C22: a move of one cursor leaves the index of every other cursor, the
\* elements of the list and its count as they were, and toFirst puts the
\* cursor on index 0, where current yields element 0 of a list that has
\* one.
C22_CursorsIndependent ==
  glLast.op \in CursorMoves =>
    /\ glList = glLast.listBefore
    /\ DOMAIN glCursors = DOMAIN glLast.cursorsBefore
    /\ \A d \in DOMAIN glCursors :
         d # glLast.cursor => glCursors[d] = glLast.cursorsBefore[d]
    /\ glLast.op = "toFirst" =>
         /\ glCursors[glLast.cursor] = 0
         /\ Len(glList) > 0 => currentOf(glList, glCursors[glLast.cursor]).v = glList[1]

\* The second cursor was at the end of a list of two elements and was sent
\* back to the first element while the first cursor stayed on index 1.
C22_Witness ==
  /\ glLast.op = "toFirst"
  /\ glLast.cursor = 2
  /\ Len(glList) = 2
  /\ Len(glCursors) = 2
  /\ glLast.cursorsBefore[2] = 2
  /\ glCursors[1] = 1
  /\ glCursors[2] = 0

\* C30: the index of every cursor is within -1..n; current returns false
\* and the None variant exactly when the index is -1 or n, and true with
\* the element at the index otherwise; toNext at n and toPrev at -1 leave
\* the index as it was.
C30_CursorIndexInBounds ==
  /\ \A c \in DOMAIN glCursors : glCursors[c] \in (-1)..Len(glList)
  /\ glLast.op = "current" =>
       LET i == glCursors[glLast.cursor]
       IN IF i = -1 \/ i = Len(glList)
            THEN ~glLast.ok /\ glLast.result = NoneVariant
            ELSE glLast.ok /\ glLast.result = glList[i + 1]
  /\ (glLast.op = "toNext" /\ glLast.cursorsBefore[glLast.cursor] = Len(glList)) =>
       glCursors[glLast.cursor] = Len(glList)
  /\ (glLast.op = "toPrev" /\ glLast.cursorsBefore[glLast.cursor] = -1) =>
       glCursors[glLast.cursor] = -1

\* toNext was called on a cursor that was past the last of three elements.
C30_Witness ==
  /\ glLast.op = "toNext"
  /\ Len(glList) = 3
  /\ glLast.cursorsBefore[glLast.cursor] = 3
  /\ glCursors[glLast.cursor] = 3

\* ------------------------------------------------------------------------
\* Accessors called under any output format
\* ------------------------------------------------------------------------
\* The documentation, code and diagram accessors of a class and a member
\* as functions of g_globals.outputFormat, the configuration and the
\* symbol's cache: the Context Objects exist, their caches stay attached,
\* and the format is set to any value of the enum between the calls.
ConfigValues == [haveDot : BOOLEAN, classGraph : BOOLEAN]

\* The handle a graph built by the next call gets: new DotClassGraph and
\* new DotCallGraph return an object distinct from every earlier one.
FreshHandle == 1 + Cardinality({k \in DOMAIN reqLog : reqLog[k].built})

\* A text accessor's result with the errors its parser invocations report:
\* parseDoc and parseCode run the switch over the output format once.
TextAccess(cache, d, p, fmt) ==
  LET r == Accessor(cache, d, p, fmt)
  IN [cache |-> r.cache, result |-> r.result, handle |-> Null, built |-> FALSE,
      drew |-> 0, errors |-> r.parsed * formatError(fmt), parsed |-> r.parsed]

InitAC ==
  /\ outputFormat \in Formats
  /\ cookie = [d \in Defs |-> IF d \in {"cd", "md"} THEN <<NewCachable>> ELSE NoCookie]
  /\ mainPage = NoPage
  /\ symbolMap = Defs \ {"index"}
  /\ ctxs = <<"cd", "md">>
  /\ pc = "idle"
  /\ runs = 0
  /\ plain \in SUBSET {"md"}
  /\ config \in ConfigValues
  /\ parseCalls = NoCalls
  /\ attached = {"cd", "md"}
  /\ reqLog = <<>>
  /\ baseClasses = [c \in Classes |-> <<>>]
  /\ linkable = Classes
  /\ membersOf = [c \in Classes |-> {}]
  /\ imList = <<>>
  /\ imCalls = <<>>
  /\ imVisited = {}
  /\ visibleClasses = Classes
  /\ language = [c \in Classes |-> "Cpp"]
  /\ vhdlEntities = {}
  /\ hiddenMap = {}
  /\ classTree = <<>>
  /\ hierBuilt = FALSE
  /\ NtIdle
  /\ PmIdle
  /\ GlIdle

\* g_globals.outputFormat = ...
setOutputFormat(fmt) ==
  /\ fmt # outputFormat
  /\ outputFormat' = fmt
  /\ UNCHANGED <<cookie, symbolMap, mainPage, ctxs, pc, runs, plain, config, parseCalls,
               attached, reqLog, nonCacheVars>>

\* Property p of Context Object i is read.
Access(i, p) ==
  /\ Len(reqLog) < MaxAccesses
  /\ i \in DOMAIN ctxs
  /\ LET d == ctxs[i]
     IN /\ p \in PropsOf(d) \cup GraphPropsOf(d)
        /\ hasCache(cookie, d)
        /\ LET r == IF p \in GraphProps
                      THEN GraphAccessor(cookie[d][1], d, p, outputFormat, FreshHandle)
                      ELSE TextAccess(cookie[d][1], d, p, outputFormat)
           IN /\ cookie' = [cookie EXCEPT ![d] = <<r.cache>>]
              /\ reqLog' = Append(reqLog, [ctx |-> i, def |-> d, prop |-> p,
                                           fmt |-> outputFormat, val |-> r.result,
                                           parsed |-> r.parsed, errors |-> r.errors,
                                           handle |-> r.handle, built |-> r.built,
                                           drew |-> r.drew])
  /\ UNCHANGED <<outputFormat, symbolMap, mainPage, ctxs, pc, runs, plain, config, parseCalls,
               attached, nonCacheVars>>

NextAC ==
  \/ \E fmt \in Formats : setOutputFormat(fmt)
  \/ \E i \in ContextIds, p \in AllProps \cup GraphProps : Access(i, p)

SpecAC == InitAC /\ [][NextAC]_vars

\* ------------------------------------------------------------------------
\* Properties of the accessors under any output format
\* ------------------------------------------------------------------------
Supported == {"Html", "Latex"}

\* The earlier calls that used the graph of the same diagram kind of the
\* same symbol as call j.
EarlierGraphCalls(j) ==
  {i \in 1..(j - 1) : /\ reqLog[i].def = reqLog[j].def
                      /\ reqLog[i].prop = reqLog[j].prop
                      /\ reqLog[i].handle # Null}

\* C23: while a symbol's cache is attached, the graph of a diagram kind is
\* built by the first call that uses it, and every later call uses that
\* same handle without building, whatever the output format is by then.
C23_GraphBuiltOnce ==
  \A j \in DOMAIN reqLog :
    reqLog[j].handle # Null =>
      IF EarlierGraphCalls(j) = {}
        THEN reqLog[j].built
        ELSE /\ ~reqLog[j].built
             /\ \A i \in EarlierGraphCalls(j) : reqLog[i].handle = reqLog[j].handle

\* The inheritance graph of the class was built by a call in HTML and used
\* again by a call in LaTeX.
C23_Witness ==
  /\ Len(reqLog) = 2
  /\ reqLog[1].prop = "inheritanceDiagram" /\ reqLog[2].prop = "inheritanceDiagram"
  /\ reqLog[1].fmt = "Html" /\ reqLog[2].fmt = "Latex"
  /\ reqLog[1].built /\ ~reqLog[2].built
  /\ reqLog[1].handle # Null
  /\ reqLog[2].handle = reqLog[1].handle

\* C24 as stated: every accessor call made while the output format is
\* neither HTML nor LaTeX reports an error and yields the empty text.
C24_UnsupportedFormatReportsError ==
  \A k \in DOMAIN reqLog :
    reqLog[k].fmt \notin Supported =>
      /\ reqLog[k].errors >= 1
      /\ reqLog[k].val = EmptyText

\* C24: while the output format is neither HTML nor LaTeX, every parser
\* invocation and every diagram whose output switch is reached reports one
\* error, the call returns the empty text, and nothing aborts; a call that
\* invokes no parser and reaches no switch reports no error.
C24_ParserRunReportsError ==
  /\ pc # "aborted"
  /\ \A k \in DOMAIN reqLog :
       reqLog[k].fmt \notin Supported =>
         /\ reqLog[k].errors = reqLog[k].parsed + reqLog[k].drew
         /\ (reqLog[k].parsed > 0 \/ reqLog[k].drew > 0) => reqLog[k].val = EmptyText

\* The inheritance diagram was requested in RTF and the details in an
\* unspecified format; each reported one error and returned the empty text.
C24_Witness ==
  /\ Len(reqLog) = 2
  /\ reqLog[1].prop = "inheritanceDiagram" /\ reqLog[1].fmt = "Rtf"
  /\ reqLog[1].drew = 1 /\ reqLog[1].errors = 1 /\ reqLog[1].val = EmptyText
  /\ reqLog[2].prop = "details" /\ reqLog[2].fmt = "Unspecified"
  /\ reqLog[2].parsed = 1 /\ reqLog[2].errors = 1 /\ reqLog[2].val = EmptyText

\* ------------------------------------------------------------------------
\* Further properties of the cache life cycle
\* ------------------------------------------------------------------------
\* C25: getCache's assertion never fails: every symbol that has a live
\* Context Object has its cache attached, from the construction of the
\* Context Object until the teardown.
C25_CacheAttachedWhileContextLives ==
  /\ pc # "aborted"
  /\ \A i \in DOMAIN ctxs : hasCache(cookie, ctxs[i])

\* In the second run a second Context Object of the main page, whose
\* constructor found the cache attached, served a request.
C25_Witness ==
  /\ runs = 2
  /\ Len(ctxs) = 2
  /\ ctxs[1] = ctxs[2]
  /\ Len(reqLog) > 0
  /\ reqLog[Len(reqLog)].ctx = 2

\* The format recorded for the slot of property p.
RecordedFormat(cache, p) ==
  IF p = "brief" THEN cache.briefOutputFormat ELSE cache.inbodyDocsOutputFormat

\* C28: after brief or inbodyDocs was requested in format F, the format
\* recorded for the slot is F, for symbols with and without a brief
\* description or in-body documentation.
C28_RequestRecordsFormat ==
  \A k \in DOMAIN reqLog :
    (/\ reqLog[k].prop \in {"brief", "inbodyDocs"}
     /\ hasCache(cookie, reqLog[k].def)
     /\ \A j \in (k + 1)..Len(reqLog) : ~SameSlot(k, j))
      => RecordedFormat(cookie[reqLog[k].def][1], reqLog[k].prop) = reqLog[k].fmt

\* ------------------------------------------------------------------------
\* Further properties of the inherited-member aggregator
\* ------------------------------------------------------------------------
RECURSIVE TableTraversal(_, _, _, _, _, _, _)
\* The traversal in which the secondary category used for a base class is
\* the one passed down by the caller or, if that is none, the one the
\* table gives for the edge to that base class; everything else is as in
\* findInheritedMembers.
TableTraversal(inheritedFrom, cd, k, lt, lt2, additionalList, st) ==
  IF k > Len(baseClasses[cd])
    THEN st
    ELSE
      LET ibcd == baseClasses[cd][k]
          icd  == ibcd.classDef
          conv == convertProtectionLevel(lt, ibcd.prot)
          lt2e == IF lt2 = NoList THEN conv[2] ELSE lt2
      IN IF icd \notin linkable \/ icd \in st.visited
           THEN TableTraversal(inheritedFrom, cd, k+1, lt, lt2, additionalList, st)
           ELSE
             LET st1 == [st EXCEPT !.visited = @ \cup {icd}]
             IN IF conv[1] # NoList
                  THEN
                    LET st2 == addInheritedMembers(inheritedFrom, icd, lt, conv[1], lt2e,
                                                   additionalList, st1)
                        st3 == TableTraversal(inheritedFrom, icd, 1, conv[1], lt2e,
                                              additionalList, st2)
                    IN TableTraversal(inheritedFrom, cd, k+1, lt, lt2, additionalList, st3)
                  ELSE TableTraversal(inheritedFrom, cd, k+1, lt, lt2, additionalList, st1)

\* The entries call k appended to the list.
EntriesOfCall(k) == SubSeq(imList, imCalls[k].lo, imCalls[k].hi)

\* Whether call k passed the show test and traversed the base classes.
Traversed(k) == show(imCalls[k].additionalList, imCalls[k].memberInSection)

\* C26: the secondary category of every entry is the one passed down by
\* the caller or the one the table gives for the edge to the entry's
\* class; base classes processed earlier in the same loop have no part in
\* it.
C26_SecondaryCategoryFromEdge ==
  \A k \in DOMAIN imCalls :
    Traversed(k) =>
      EntriesOfCall(k) =
        TableTraversal(imCalls[k].cd, imCalls[k].cd, 1, imCalls[k].lt, NoList,
                       imCalls[k].additionalList, [visited |-> {}, out |-> <<>>]).out

RECURSIVE ValidAncestors(_, _)
\* The ancestors of cd reachable through linkable classes along edges that
\* each translate the category to a valid one, starting with category lt.
ValidAncestors(cd, lt) ==
  UNION {LET e == baseClasses[cd][i]
             lt1 == convertProtectionLevel(lt, e.prot)[1]
         IN IF e.classDef \in linkable /\ lt1 # NoList
              THEN {e.classDef} \cup ValidAncestors(e.classDef, lt1)
              ELSE {}
         : i \in DOMAIN baseClasses[cd]}

\* C27: every ancestor that has members and is reachable along a path of
\* edges that translate the category to a valid one contributes an entry,
\* in whatever order the base classes are listed.
C27_ValidAncestorsContribute ==
  \A k \in DOMAIN imCalls :
    Traversed(k) =>
      \A a \in ValidAncestors(imCalls[k].cd, imCalls[k].lt) :
        membersOf[a] # {} =>
          \E i \in DOMAIN EntriesOfCall(k) : EntriesOfCall(k)[i].cd = a

\* ------------------------------------------------------------------------
\* Further properties of the containment trees
\* ------------------------------------------------------------------------
\* C29: no two distinct nodes of a tree have the same id, whether they are
\* in children lists or in members lists.
C29_NodeIdsUnique ==
  \A m, n \in NtNodes : m.id = n.id => m = n

====
